---- MODULE Spec2Model ----
(***************************************************************************)
(* Model of the sample-deduplication core of stackdriver_exporter:         *)
(*   - package hash: the streaming 64-bit FNV-1a accumulator,              *)
(*   - MetricDeduplicator.hashLabelsTimestamp: the order-independent       *)
(*     signature of (name, label keys, label values, timestamp),           *)
(*   - MetricDeduplicator.CheckAndMark / RevertMark / Reset, called by     *)
(*     concurrent goroutines and serialised by the mutex d.mu.             *)
(*                                                                         *)
(* Representation.  TLC integers are 32 bits wide, so a uint64 is a tuple  *)
(* of four 16-bit limbs, least-significant limb first, and all arithmetic  *)
(* on it wraps modulo 2^64.  A Go string is the sequence of its bytes.     *)
(***************************************************************************)
EXTENDS Integers, Sequences, FiniteSets, TLC

----------------------------------------------------------------------------
(* State *)

VARIABLES
    mu,                 \* d.mu: 0 when unlocked, else the goroutine holding it
    sentSignatures,     \* d.sentSignatures: the set of signatures marked
    checksTotal,        \* d.checksTotal
    duplicatesTotal,    \* d.duplicatesTotal
    uniqueMetricsGauge, \* d.uniqueMetricsGauge
    pc,                 \* position of each goroutine inside its call
    args,               \* the sample of each goroutine's current call
    signature,          \* the local variable signature of each call
    isDuplicate,        \* the value the current CheckAndMark call returns
    issued,             \* number of calls issued so far
    log,                \* the calls that returned, in order of return
    sigPc,              \* signature computation: "off", "ready", "hashed", "done",
                        \* "short"
    sigArgs,            \* its arguments (name, keys, values, ts)
    sigPerm,            \* a permutation of the label indices
    sigOut,             \* signature of sigArgs
    sigOutPerm,         \* signature of sigArgs with the labels permuted
    sigBytes,           \* the bytes folded for sigArgs before the timestamp
    sigCut,             \* number of values kept when the values are cut short
    sigOutShort,        \* signature of sigArgs with only sigCut values
    sigOutPadded,       \* signature of sigArgs with "" for the values cut
    hashPc,             \* hash test: "off", "ready", "fold", "old", "done"
    hashStart,          \* the accumulator state the test starts from
    testValue,          \* the 64-bit value folded
    result,             \* AddUint64(hashStart, testValue)
    h2,                 \* the accumulator folded byte by byte
    bytesLeft,          \* what remains of testValue, shifted right
    bytesDone,          \* number of bytes folded into h2
    oldResult,          \* (hashStart XOR testValue) * prime64
    lblPc,              \* label assembly: "off", "start", "metric", "resource",
                        \* "user", "system", "done", "overridden"; the tests of
                        \* the primitives: "t_start", "t_index", "t_exists", "t_done"
    unitLabel,          \* value of the unit label
    metricLabels,       \* map of the metric's own labels
    resourceLabels,     \* map of the resource labels
    userLabels,         \* map of the user labels
    systemLabelsJSON,   \* the raw system-label payload
    enableSystemLabels, \* collector.enableSystemLabels
    userLabelsOverride, \* collector.userLabelsOverride
    lblKeys,            \* labelKeys of the assembly
    lblValues,          \* labelValues of the assembly
    pending,            \* keys the current range loop has not visited yet
    tt,                 \* the case of a test of the label primitives
    foundIndex,         \* what findKeyIndex returned
    foundExists,        \* what keyExists returned
    heap,               \* the objects allocated: maps and metric values, by address
    instances,          \* the deduplicators constructed: the addresses their fields hold
    lastCall,           \* the last call made on a deduplicator of instances
    instCalls,          \* number of calls made on the deduplicators of instances
    sortPc,             \* sort.Slice on its own: "off", "ready", "sorted"
    sortKeys,           \* the labelKeys the less function reads
    sortIndices,        \* the indices slice
    late,               \* per goroutine: its CheckAndMark waited for the lock
                        \* while a Reset emptied the set
    lateLog,            \* the positions of log that such calls wrote
    snapshots           \* per returned call: the set and the gauge it left

dedupVars == <<mu, sentSignatures, checksTotal, duplicatesTotal, uniqueMetricsGauge,
               pc, args, signature, isDuplicate, issued, log>>

sigVars == <<sigPc, sigArgs, sigPerm, sigOut, sigOutPerm,
             sigBytes, sigCut, sigOutShort, sigOutPadded>>

hashVars == <<hashPc, hashStart, testValue, result, h2, bytesLeft, bytesDone, oldResult>>

labelVars == <<lblPc, unitLabel, metricLabels, resourceLabels, userLabels, systemLabelsJSON,
               enableSystemLabels, userLabelsOverride, lblKeys, lblValues, pending,
               tt, foundIndex, foundExists>>

instVars == <<heap, instances, lastCall, instCalls>>

sortVars == <<sortPc, sortKeys, sortIndices>>

iterVars == <<late, lateLog, snapshots>>

vars == <<dedupVars, sigVars, hashVars, labelVars, instVars, sortVars, iterVars>>

----------------------------------------------------------------------------
(* Fixed-width helpers *)

LimbBase == 65536

ByteBase == 256

U64(l0, l1, l2, l3) == <<l0, l1, l2, l3>>

\* bitwise XOR of two n-bit naturals
RECURSIVE XorBits(_, _, _)
XorBits(a, b, n) ==
    IF n = 0 THEN 0
    ELSE (((a % 2) + (b % 2)) % 2) + 2 * XorBits(a \div 2, b \div 2, n - 1)

\* h ^= uint64(b) for a byte b: only the low byte of the low limb changes
XorByte(h, b) ==
    <<(h[1] - (h[1] % ByteBase)) + XorBits(h[1] % ByteBase, b, 8), h[2], h[3], h[4]>>

\* column k (1..4) of the schoolbook product x * p, before carries
RECURSIVE MulColumn(_, _, _, _)
MulColumn(x, p, k, i) ==
    IF i > k THEN 0
    ELSE x[i] * p[k - i + 1] + MulColumn(x, p, k, i + 1)

\* x * p with 64-bit wraparound; the limbs of p are small enough (prime64)
\* for every column sum to stay below 2^31
Mul64(x, p) ==
    LET s1 == MulColumn(x, p, 1, 1)
        s2 == MulColumn(x, p, 2, 1) + (s1 \div LimbBase)
        s3 == MulColumn(x, p, 3, 1) + (s2 \div LimbBase)
        s4 == MulColumn(x, p, 4, 1) + (s3 \div LimbBase)
    IN  <<s1 % LimbBase, s2 % LimbBase, s3 % LimbBase, s4 % LimbBase>>

\* byte k (0 = least significant) of a uint64
ByteOf(v, k) ==
    LET limb == v[(k \div 2) + 1]
    IN  IF k % 2 = 0 THEN limb % ByteBase ELSE limb \div ByteBase

\* a ^ b on uint64, limb by limb
Xor64(a, b) == [i \in 1..4 |-> XorBits(a[i], b[i], 16)]

\* v >> 8 on uint64: each limb takes the low byte of the next one
ShiftRight8(v) ==
    [i \in 1..4 |->
        (v[i] \div ByteBase) + (IF i < 4 THEN (v[i + 1] % ByteBase) * ByteBase ELSE 0)]

----------------------------------------------------------------------------
(* package hash (FNV-1a) *)

\* 14695981039346656037 = 0xcbf29ce484222325
offset64 == U64(8997, 33826, 40164, 52210)

\* 1099511628211 = 0x00000100000001b3
prime64 == U64(435, 0, 256, 0)

SeparatorByte == 255

New == offset64

AddByte(h, b) == Mul64(XorByte(h, b), prime64)

\* for each byte of s in order: h = AddByte(h, s[i]).  The loop is a
\* function of the accumulator so that each step is evaluated before the next.
Add(h0, s) ==
    LET loop[h \in Seq(Nat), i \in 1..(Len(s) + 1)] ==
            IF i > Len(s) THEN h ELSE loop[AddByte(h, s[i]), i + 1]
    IN  loop[h0, 1]

\* the eight bytes of v, most-significant byte first
AddUint64_MSBFirst(h0, v) ==
    LET loop[h \in Seq(Nat), k \in 0..8] ==
            IF k > 7 THEN h ELSE loop[AddByte(h, ByteOf(v, 7 - k)), k + 1]
    IN  loop[h0, 0]

\* the whole value XOR-ed in at once, one multiplication
AddUint64_XorOnce(h0, v) == Mul64(Xor64(h0, v), prime64)

\* the eight bytes of v, least-significant byte first
AddUint64(h0, v) ==
    LET loop[h \in Seq(Nat), k \in 0..8] ==
            IF k > 7 THEN h ELSE loop[AddByte(h, ByteOf(v, k)), k + 1]
    IN  loop[h0, 0]

----------------------------------------------------------------------------
(* Go strings as byte sequences *)

\* a < b on Go strings: byte-wise lexicographic order
RECURSIVE StrLessFrom(_, _, _)
StrLessFrom(a, b, i) ==
    IF i > Len(b) THEN FALSE
    ELSE IF i > Len(a) THEN TRUE
    ELSE IF a[i] < b[i] THEN TRUE
    ELSE IF a[i] > b[i] THEN FALSE
    ELSE StrLessFrom(a, b, i + 1)

StrLess(a, b) == StrLessFrom(a, b, 1)

----------------------------------------------------------------------------
(* MetricDeduplicator.hashLabelsTimestamp *)

\* the nil slice of strings: a value that is no slice of Go strings (its
\* one entry holds -1, which is no byte) and whose length is 0
NilSlice == << <<-1>> >>

\* len(s)
GoLen(s) == IF s = NilSlice THEN 0 ELSE Len(s)

SwapIdx(indices, i, j) ==
    [indices EXCEPT ![i] = indices[j], ![j] = indices[i]]

\* inner loop of the insertion sort: sink element j while it is less than
\* its left neighbour under less(i, j) = labelKeys[indices[i]] < labelKeys[indices[j]]
RECURSIVE SinkDown(_, _, _)
SinkDown(indices, labelKeys, j) ==
    IF j > 1 /\ StrLess(labelKeys[indices[j]], labelKeys[indices[j - 1]])
    THEN SinkDown(SwapIdx(indices, j, j - 1), labelKeys, j - 1)
    ELSE indices

RECURSIVE InsertionSortFrom(_, _, _)
InsertionSortFrom(indices, labelKeys, i) ==
    IF i > Len(indices) THEN indices
    ELSE InsertionSortFrom(SinkDown(indices, labelKeys, i), labelKeys, i + 1)

\* the labels folded in the order they were supplied
sortSlice_Unsorted(indices, labelKeys) == indices

\* sort.Slice(indices, less): for slices of at most 12 elements Go's sort
\* is this insertion sort (indices are 1-based here)
sortSlice(indices, labelKeys) == InsertionSortFrom(indices, labelKeys, 2)

\* the labels skipped when they have no value
RECURSIVE hashSortedLabels_SkipsUnmatched(_, _, _, _, _)
hashSortedLabels_SkipsUnmatched(h, indices, labelKeys, labelValues, n) ==
    IF n > Len(indices) THEN h
    ELSE LET idx == indices[n]
             hv  == AddByte(Add(AddByte(Add(h, labelKeys[idx]), SeparatorByte),
                                labelValues[idx]), SeparatorByte)
         IN  IF idx <= Len(labelValues)
             THEN hashSortedLabels_SkipsUnmatched(hv, indices, labelKeys, labelValues, n + 1)
             ELSE hashSortedLabels_SkipsUnmatched(h, indices, labelKeys, labelValues, n + 1)

\* the keys folded without their values
RECURSIVE hashSortedLabels_KeysOnly(_, _, _, _, _)
hashSortedLabels_KeysOnly(h, indices, labelKeys, labelValues, n) ==
    IF n > Len(indices) THEN h
    ELSE LET idx == indices[n]
             hk  == AddByte(Add(h, labelKeys[idx]), SeparatorByte)
         IN  hashSortedLabels_KeysOnly(AddByte(hk, SeparatorByte), indices,
                                       labelKeys, labelValues, n + 1)

\* for _, idx := range indices { key, separator, value if present, separator }
RECURSIVE hashSortedLabels(_, _, _, _, _)
hashSortedLabels(h, indices, labelKeys, labelValues, n) ==
    IF n > Len(indices) THEN h
    ELSE LET idx == indices[n]
             hk  == AddByte(Add(h, labelKeys[idx]), SeparatorByte)
             hv  == IF idx <= Len(labelValues) THEN Add(hk, labelValues[idx]) ELSE hk
         IN  hashSortedLabels(AddByte(hv, SeparatorByte), indices, labelKeys, labelValues, n + 1)

\* the moment of the computation folded in place of the sample's timestamp
hashLabelsTimestamp_Stateful(fqName, labelKeys, labelValues, ts) ==
    LET h0      == AddByte(Add(New, fqName), SeparatorByte)
        indices == InsertionSortFrom([i \in 1..Len(labelKeys) |-> i], labelKeys, 2)
        h1      == IF Len(labelKeys) > 0
                   THEN hashSortedLabels(h0, indices, labelKeys, labelValues, 1)
                   ELSE h0
    IN  AddUint64(h1, U64(Len(log), 0, 0, 0))

\* the signature without the timestamp: name and sorted labels only
hashLabelsTimestamp_NoTimestamp(fqName, labelKeys, labelValues, ts) ==
    LET h0      == AddByte(Add(New, fqName), SeparatorByte)
        indices == InsertionSortFrom([i \in 1..Len(labelKeys) |-> i], labelKeys, 2)
    IN  IF Len(labelKeys) > 0
        THEN hashSortedLabels(h0, indices, labelKeys, labelValues, 1)
        ELSE h0

\* the labels and a closing separator folded for every label set that is
\* not nil, the empty one included
hashLabelsTimestamp_NilTested(fqName, labelKeys, labelValues, ts) ==
    LET h0      == AddByte(Add(New, fqName), SeparatorByte)
        indices == sortSlice([i \in 1..GoLen(labelKeys) |-> i], labelKeys)
        h1      == IF labelKeys # NilSlice
                   THEN AddByte(hashSortedLabels(h0, indices, labelKeys, labelValues, 1),
                                SeparatorByte)
                   ELSE h0
    IN  AddUint64(h1, ts)

\* ts is uint64(ts.UnixNano())
hashLabelsTimestamp(fqName, labelKeys, labelValues, ts) ==
    LET h0      == AddByte(Add(New, fqName), SeparatorByte)
        indices == sortSlice([i \in 1..GoLen(labelKeys) |-> i], labelKeys)
        h1      == IF GoLen(labelKeys) > 0
                   THEN hashSortedLabels(h0, indices, labelKeys, labelValues, 1)
                   ELSE h0
    IN  AddUint64(h1, ts)

\* the bytes of the name and of the labels with nothing between them
RECURSIVE foldedLabels_NoSeparators(_, _, _, _)
foldedLabels_NoSeparators(indices, labelKeys, labelValues, n) ==
    IF n > Len(indices) THEN <<>>
    ELSE LET idx == indices[n]
         IN  labelKeys[idx]
             \o (IF idx <= Len(labelValues) THEN labelValues[idx] ELSE <<>>)
             \o foldedLabels_NoSeparators(indices, labelKeys, labelValues, n + 1)

\* the bytes the loop over the sorted indices hands to hash.Add and
\* hash.AddByte: key, separator, value if present, separator
RECURSIVE foldedLabels(_, _, _, _)
foldedLabels(indices, labelKeys, labelValues, n) ==
    IF n > Len(indices) THEN <<>>
    ELSE LET idx == indices[n]
         IN  labelKeys[idx] \o <<SeparatorByte>>
             \o (IF idx <= Len(labelValues) THEN labelValues[idx] ELSE <<>>)
             \o <<SeparatorByte>>
             \o foldedLabels(indices, labelKeys, labelValues, n + 1)

\* the bytes folded before the timestamp: the name, a separator, the labels
foldedBytes(fqName, labelKeys, labelValues) ==
    fqName \o <<SeparatorByte>>
    \o foldedLabels(sortSlice([i \in 1..GoLen(labelKeys) |-> i], labelKeys),
                    labelKeys, labelValues, 1)

----------------------------------------------------------------------------
(* Inputs *)

\* 2023-09-08 12:00:00 UTC in nanoseconds, 0x1782eaa4038f8000
TsNoon == U64(32768, 911, 60068, 6018)

\* one second later, 0x1782eaa43f2a4a00
TsNoonPlus1s == U64(18944, 16170, 60068, 6018)

StrM == <<109>>

StrN == <<110>>

StrA == <<97>>

StrB == <<98>>

StrAB == <<97, 98>>

StrX == <<120>>

StrY == <<121>>

\* "test_metric"
StrTestMetric == <<116, 101, 115, 116, 95, 109, 101, 116, 114, 105, 99>>

\* "different_metric"
StrDifferentMetric == <<100, 105, 102, 102, 101, 114, 101, 110, 116, 95, 109, 101, 116, 114, 105, 99>>

\* "label1"
StrLabel1 == <<108, 97, 98, 101, 108, 49>>

\* "label2"
StrLabel2 == <<108, 97, 98, 101, 108, 50>>

\* "value1"
StrValue1 == <<118, 97, 108, 117, 101, 49>>

\* "value2"
StrValue2 == <<118, 97, 108, 117, 101, 50>>

\* "different_value"
StrDifferentValue == <<100, 105, 102, 102, 101, 114, 101, 110, 116, 95, 118, 97, 108, 117, 101>>

\* two label values that FNV-1a 64 folds to the same state after the name
\* "m" and the key "a": "cqqcrvymls12k" and "cgon1qigpe1cm"
StrCollideA == <<99, 113, 113, 99, 114, 118, 121, 109, 108, 115, 49, 50, 107>>

StrCollideB == <<99, 103, 111, 110, 49, 113, 105, 103, 112, 101, 49, 99, 109>>

\* the samples the goroutines submit: 1 and 2 carry the same labels in a
\* different order, 3 differs from 1 in the timestamp only
ScrapeTuples ==
    << [name |-> StrM, keys |-> <<StrA, StrB>>, values |-> <<StrX, StrY>>, ts |-> TsNoon],
       [name |-> StrM, keys |-> <<StrB, StrA>>, values |-> <<StrY, StrX>>, ts |-> TsNoon],
       [name |-> StrM, keys |-> <<StrA, StrB>>, values |-> <<StrX, StrY>>, ts |-> TsNoonPlus1s] >>

\* samples that differ from one another in the name or in a label value:
\* the sample of the suite, the same with another value, the same with
\* another name, and two samples that differ in one label value only
DistinctTuples ==
    << [name |-> StrTestMetric, keys |-> <<StrLabel1, StrLabel2>>,
        values |-> <<StrValue1, StrValue2>>, ts |-> TsNoon],
       [name |-> StrTestMetric, keys |-> <<StrLabel1, StrLabel2>>,
        values |-> <<StrValue1, StrDifferentValue>>, ts |-> TsNoon],
       [name |-> StrDifferentMetric, keys |-> <<StrLabel1, StrLabel2>>,
        values |-> <<StrValue1, StrValue2>>, ts |-> TsNoon],
       [name |-> StrM, keys |-> <<StrA>>, values |-> <<StrCollideA>>, ts |-> TsNoon],
       [name |-> StrM, keys |-> <<StrA>>, values |-> <<StrCollideB>>, ts |-> TsNoon] >>

\* the sample of the suite without labels: with empty slices and with nil
EmptyTuples ==
    << [name |-> StrTestMetric, keys |-> <<>>, values |-> <<>>, ts |-> TsNoon],
       [name |-> StrTestMetric, keys |-> NilSlice, values |-> NilSlice, ts |-> TsNoon] >>

TupleTable == ScrapeTuples \o DistinctTuples \o EmptyTuples

TupleIds == DOMAIN ScrapeTuples

DistinctIds == (DOMAIN (ScrapeTuples \o DistinctTuples)) \ TupleIds

EmptyId == Len(ScrapeTuples) + Len(DistinctTuples) + 1

NilId == EmptyId + 1

\* the signature each sample gets from hashLabelsTimestamp
SigOf ==
    [t \in DOMAIN TupleTable |->
        hashLabelsTimestamp(TupleTable[t].name, TupleTable[t].keys,
                            TupleTable[t].values, TupleTable[t].ts)]

\* number of goroutines sharing one deduplicator
NumProcs == 2

\* number of calls issued in one behaviour
MaxCalls == 4

Procs == 1..NumProcs

\* bounds of the inputs of the signature computation
MaxLabels == 2

SigNames == {StrM, StrN}

SigKeys == {StrA, StrB, StrAB}

SigValues == {StrX, StrY}

SigTimes == {TsNoon, TsNoonPlus1s}

----------------------------------------------------------------------------
(* Construction *)

NoSig == <<>>

NoTuple == 0

\* NewMetricDeduplicator: empty set, counters and gauge at 0, mutex unlocked
NewMetricDeduplicator ==
    /\ mu = 0
    /\ sentSignatures = {}
    /\ checksTotal = 0
    /\ duplicatesTotal = 0
    /\ uniqueMetricsGauge = 0
    /\ pc = [p \in Procs |-> "idle"]
    /\ args = [p \in Procs |-> NoTuple]
    /\ signature = [p \in Procs |-> NoSig]
    /\ isDuplicate = [p \in Procs |-> FALSE]
    /\ issued = 0
    /\ log = <<>>

SigOff ==
    /\ sigPc = "off"
    /\ sigArgs = [name |-> <<>>, keys |-> <<>>, values |-> <<>>, ts |-> TsNoon]
    /\ sigPerm = <<>>
    /\ sigOut = NoSig
    /\ sigOutPerm = NoSig
    /\ sigBytes = <<>>
    /\ sigCut = 0
    /\ sigOutShort = NoSig
    /\ sigOutPadded = NoSig

HashOff ==
    /\ hashPc = "off"
    /\ hashStart = NoSig
    /\ testValue = NoSig
    /\ result = NoSig
    /\ h2 = NoSig
    /\ bytesLeft = NoSig
    /\ bytesDone = 0
    /\ oldResult = NoSig

\* an empty map[string]string
EmptyMap == [k \in {} |-> ""]

\* no test case; no index looked up yet (findKeyIndex returns -1 or more)
NoTest == [name |-> "none"]

NotSearched == -2

LabelsOff ==
    /\ lblPc = "off"
    /\ unitLabel = ""
    /\ metricLabels = EmptyMap
    /\ resourceLabels = EmptyMap
    /\ userLabels = EmptyMap
    /\ systemLabelsJSON = [shape |-> "empty", pairs |-> <<>>]
    /\ enableSystemLabels = FALSE
    /\ userLabelsOverride = FALSE
    /\ lblKeys = <<>>
    /\ lblValues = <<>>
    /\ pending = {}
    /\ tt = NoTest
    /\ foundIndex = NotSearched
    /\ foundExists = FALSE

\* no call on a deduplicator other than the shared one
NoCall == [d |-> 0, op |-> "none", t |-> NoTuple]

InstancesOff ==
    /\ heap = <<>>
    /\ instances = <<>>
    /\ lastCall = NoCall
    /\ instCalls = 0

SortOff ==
    /\ sortPc = "off"
    /\ sortKeys = <<>>
    /\ sortIndices = <<>>

\* no call has waited through a Reset
IterOff ==
    /\ late = [p \in Procs |-> FALSE]
    /\ lateLog = {}
    /\ snapshots = <<>>

Init ==
    /\ NewMetricDeduplicator
    /\ SigOff
    /\ HashOff
    /\ LabelsOff
    /\ InstancesOff
    /\ SortOff
    /\ IterOff

----------------------------------------------------------------------------
(* Calls on the shared deduplicator *)

Goto(p, label) == pc' = [pc EXCEPT ![p] = label]

Returned(p, op) ==
    [op |-> op, t |-> args[p], sig |-> signature[p], ret |-> isDuplicate[p]]

\* a lock that excludes nobody
Lock_NoExclusion(p, from, to) ==
    /\ pc[p] = from
    /\ mu' = p
    /\ Goto(p, to)
    /\ UNCHANGED <<sentSignatures, checksTotal, duplicatesTotal, uniqueMetricsGauge,
                   args, signature, isDuplicate, issued, log>>

\* d.mu.Lock()
Lock(p, from, to) ==
    /\ pc[p] = from
    /\ mu = 0
    /\ mu' = p
    /\ Goto(p, to)
    /\ UNCHANGED <<sentSignatures, checksTotal, duplicatesTotal, uniqueMetricsGauge,
                   args, signature, isDuplicate, issued, log>>

\* the return to the caller without the deferred d.mu.Unlock()
Unlock_Held(p, from, op) ==
    /\ pc[p] = from
    /\ mu' = mu
    /\ log' = Append(log, Returned(p, op))
    /\ Goto(p, "idle")
    /\ args' = [args EXCEPT ![p] = NoTuple]
    /\ signature' = [signature EXCEPT ![p] = NoSig]
    /\ isDuplicate' = [isDuplicate EXCEPT ![p] = FALSE]
    /\ UNCHANGED <<sentSignatures, checksTotal, duplicatesTotal, uniqueMetricsGauge, issued>>

\* the deferred d.mu.Unlock() and the return to the caller
Unlock(p, from, op) ==
    /\ pc[p] = from
    /\ mu' = 0
    /\ log' = Append(log, Returned(p, op))
    /\ Goto(p, "idle")
    /\ args' = [args EXCEPT ![p] = NoTuple]
    /\ signature' = [signature EXCEPT ![p] = NoSig]
    /\ isDuplicate' = [isDuplicate EXCEPT ![p] = FALSE]
    /\ UNCHANGED <<sentSignatures, checksTotal, duplicatesTotal, uniqueMetricsGauge, issued>>

\* a goroutine calls CheckAndMark(name, labelKeys, labelValues, ts)
CallCheckAndMark(p, t) ==
    /\ pc[p] = "idle"
    /\ issued < MaxCalls
    /\ issued' = issued + 1
    /\ args' = [args EXCEPT ![p] = t]
    /\ Goto(p, "cam_lock")
    /\ UNCHANGED <<mu, sentSignatures, checksTotal, duplicatesTotal, uniqueMetricsGauge,
                   signature, isDuplicate, log>>

CheckAndMarkLock(p) == Lock(p, "cam_lock", "cam_inc")

\* the check is not counted
CheckAndMarkInc_Skip(p) ==
    /\ pc[p] = "cam_inc"
    /\ Goto(p, "cam_test")
    /\ UNCHANGED <<mu, sentSignatures, checksTotal, duplicatesTotal, uniqueMetricsGauge,
                   args, signature, isDuplicate, issued, log>>

\* d.checksTotal.Inc()
CheckAndMarkInc(p) ==
    /\ pc[p] = "cam_inc"
    /\ checksTotal' = checksTotal + 1
    /\ Goto(p, "cam_test")
    /\ UNCHANGED <<mu, sentSignatures, duplicatesTotal, uniqueMetricsGauge,
                   args, signature, isDuplicate, issued, log>>

\* a sample counts as seen when any sample of its metric name is marked
CheckAndMarkTest_ByName(p) ==
    /\ pc[p] = "cam_test"
    /\ LET sig  == SigOf[args[p]]
           seen == \E u \in DOMAIN TupleTable :
                      /\ TupleTable[u].name = TupleTable[args[p]].name
                      /\ SigOf[u] \in sentSignatures
       IN  /\ signature' = [signature EXCEPT ![p] = sig]
           /\ isDuplicate' = [isDuplicate EXCEPT ![p] = seen]
           /\ Goto(p, IF seen THEN "cam_dup" ELSE "cam_insert")
    /\ UNCHANGED <<mu, sentSignatures, checksTotal, duplicatesTotal, uniqueMetricsGauge,
                   args, issued, log>>

\* signature := d.hashLabelsTimestamp(name, labelKeys, labelValues, ts) and
\* the membership test _, exists := d.sentSignatures[signature]
CheckAndMarkTest(p) ==
    /\ pc[p] = "cam_test"
    /\ LET sig == SigOf[args[p]]
       IN  /\ signature' = [signature EXCEPT ![p] = sig]
           /\ isDuplicate' = [isDuplicate EXCEPT ![p] = (sig \in sentSignatures)]
           /\ Goto(p, IF sig \in sentSignatures THEN "cam_dup" ELSE "cam_insert")
    /\ UNCHANGED <<mu, sentSignatures, checksTotal, duplicatesTotal, uniqueMetricsGauge,
                   args, issued, log>>

\* the duplicate is not counted
CheckAndMarkDup_NoInc(p) ==
    /\ pc[p] = "cam_dup"
    /\ Goto(p, "cam_unlock")
    /\ UNCHANGED <<mu, sentSignatures, checksTotal, duplicatesTotal, uniqueMetricsGauge,
                   args, signature, isDuplicate, issued, log>>

\* the duplicate is counted twice
CheckAndMarkDup_Twice(p) ==
    /\ pc[p] = "cam_dup"
    /\ duplicatesTotal' = duplicatesTotal + 2
    /\ Goto(p, "cam_unlock")
    /\ UNCHANGED <<mu, sentSignatures, checksTotal, uniqueMetricsGauge,
                   args, signature, isDuplicate, issued, log>>

\* the hit: d.duplicatesTotal.Inc(), the debug log line, return true
CheckAndMarkDup(p) ==
    /\ pc[p] = "cam_dup"
    /\ duplicatesTotal' = duplicatesTotal + 1
    /\ Goto(p, "cam_unlock")
    /\ UNCHANGED <<mu, sentSignatures, checksTotal, uniqueMetricsGauge,
                   args, signature, isDuplicate, issued, log>>

\* the signature is not marked
CheckAndMarkInsert_NoMark(p) ==
    /\ pc[p] = "cam_insert"
    /\ Goto(p, "cam_gauge")
    /\ UNCHANGED <<mu, sentSignatures, checksTotal, duplicatesTotal, uniqueMetricsGauge,
                   args, signature, isDuplicate, issued, log>>

\* the miss: d.sentSignatures[signature] = struct{}{}
CheckAndMarkInsert(p) ==
    /\ pc[p] = "cam_insert"
    /\ sentSignatures' = sentSignatures \cup {signature[p]}
    /\ Goto(p, "cam_gauge")
    /\ UNCHANGED <<mu, checksTotal, duplicatesTotal, uniqueMetricsGauge,
                   args, signature, isDuplicate, issued, log>>

\* d.uniqueMetricsGauge.Set(float64(len(d.sentSignatures)))
SetGauge(p, from, to) ==
    /\ pc[p] = from
    /\ uniqueMetricsGauge' = Cardinality(sentSignatures)
    /\ Goto(p, to)
    /\ UNCHANGED <<mu, sentSignatures, checksTotal, duplicatesTotal,
                   args, signature, isDuplicate, issued, log>>

\* the gauge is not refreshed after the insert
CheckAndMarkGauge_Stale(p) ==
    /\ pc[p] = "cam_gauge"
    /\ Goto(p, "cam_unlock")
    /\ UNCHANGED <<mu, sentSignatures, checksTotal, duplicatesTotal, uniqueMetricsGauge,
                   args, signature, isDuplicate, issued, log>>

CheckAndMarkGauge(p) == SetGauge(p, "cam_gauge", "cam_unlock")

\* the early return of a duplicate leaves without the d.mu.Unlock()
CheckAndMarkUnlock_NotOnDuplicate(p) ==
    IF isDuplicate[p]
    THEN Unlock_Held(p, "cam_unlock", "CheckAndMark")
    ELSE Unlock(p, "cam_unlock", "CheckAndMark")

CheckAndMarkUnlock(p) == Unlock(p, "cam_unlock", "CheckAndMark")

\* the signature of RevertMark leaves the timestamp out
CallRevertMark_NoTimestamp(p, t) ==
    /\ pc[p] = "idle"
    /\ issued < MaxCalls
    /\ issued' = issued + 1
    /\ args' = [args EXCEPT ![p] = t]
    /\ signature' = [signature EXCEPT ![p] =
           hashLabelsTimestamp_NoTimestamp(TupleTable[t].name, TupleTable[t].keys,
                                           TupleTable[t].values, TupleTable[t].ts)]
    /\ Goto(p, "rm_lock")
    /\ UNCHANGED <<mu, sentSignatures, checksTotal, duplicatesTotal, uniqueMetricsGauge,
                   isDuplicate, log>>

\* a goroutine calls RevertMark(fqName, labelKeys, labelValues, ts); the
\* signature is computed before the lock is taken
CallRevertMark(p, t) ==
    /\ pc[p] = "idle"
    /\ issued < MaxCalls
    /\ issued' = issued + 1
    /\ args' = [args EXCEPT ![p] = t]
    /\ signature' = [signature EXCEPT ![p] = SigOf[t]]
    /\ Goto(p, "rm_lock")
    /\ UNCHANGED <<mu, sentSignatures, checksTotal, duplicatesTotal, uniqueMetricsGauge,
                   isDuplicate, log>>

RevertMarkLock(p) == Lock(p, "rm_lock", "rm_delete")

\* the whole set is dropped instead of one signature
RevertMarkDelete_Clear(p) ==
    /\ pc[p] = "rm_delete"
    /\ sentSignatures' = {}
    /\ Goto(p, "rm_gauge")
    /\ UNCHANGED <<mu, checksTotal, duplicatesTotal, uniqueMetricsGauge,
                   args, signature, isDuplicate, issued, log>>

\* the marks are found by the metric name instead of the signature
RevertMarkDelete_ByName(p) ==
    /\ pc[p] = "rm_delete"
    /\ sentSignatures' = sentSignatures \
            {SigOf[t] : t \in {u \in DOMAIN TupleTable :
                                  TupleTable[u].name = TupleTable[args[p]].name}}
    /\ Goto(p, "rm_gauge")
    /\ UNCHANGED <<mu, checksTotal, duplicatesTotal, uniqueMetricsGauge,
                   args, signature, isDuplicate, issued, log>>

\* delete(d.sentSignatures, signature)
RevertMarkDelete(p) ==
    /\ pc[p] = "rm_delete"
    /\ sentSignatures' = sentSignatures \ {signature[p]}
    /\ Goto(p, "rm_gauge")
    /\ UNCHANGED <<mu, checksTotal, duplicatesTotal, uniqueMetricsGauge,
                   args, signature, isDuplicate, issued, log>>

\* the check that made the mark is taken back from the counter
RevertMarkGauge_Uncount(p) ==
    /\ pc[p] = "rm_gauge"
    /\ uniqueMetricsGauge' = Cardinality(sentSignatures)
    /\ checksTotal' = IF checksTotal > 0 THEN checksTotal - 1 ELSE 0
    /\ Goto(p, "rm_unlock")
    /\ UNCHANGED <<mu, sentSignatures, duplicatesTotal,
                   args, signature, isDuplicate, issued, log>>

\* the gauge is not refreshed after the delete
RevertMarkGauge_Stale(p) ==
    /\ pc[p] = "rm_gauge"
    /\ Goto(p, "rm_unlock")
    /\ UNCHANGED <<mu, sentSignatures, checksTotal, duplicatesTotal, uniqueMetricsGauge,
                   args, signature, isDuplicate, issued, log>>

RevertMarkGauge(p) == SetGauge(p, "rm_gauge", "rm_unlock")

RevertMarkUnlock(p) == Unlock(p, "rm_unlock", "RevertMark")

\* a goroutine calls Reset()
CallReset(p) ==
    /\ pc[p] = "idle"
    /\ issued < MaxCalls
    /\ issued' = issued + 1
    /\ Goto(p, "rs_lock")
    /\ UNCHANGED <<mu, sentSignatures, checksTotal, duplicatesTotal, uniqueMetricsGauge,
                   args, signature, isDuplicate, log>>

ResetLock(p) == Lock(p, "rs_lock", "rs_clear")

\* the old map is kept
ResetClear_Keep(p) ==
    /\ pc[p] = "rs_clear"
    /\ Goto(p, "rs_gauge")
    /\ UNCHANGED <<mu, sentSignatures, checksTotal, duplicatesTotal, uniqueMetricsGauge,
                   args, signature, isDuplicate, issued, log>>

\* d.sentSignatures = make(map[uint64]struct{})
ResetClear(p) ==
    /\ pc[p] = "rs_clear"
    /\ sentSignatures' = {}
    /\ Goto(p, "rs_gauge")
    /\ UNCHANGED <<mu, checksTotal, duplicatesTotal, uniqueMetricsGauge,
                   args, signature, isDuplicate, issued, log>>

\* every metric of the deduplicator is zeroed, the counters too
ResetGauge_ZeroAll(p) ==
    /\ pc[p] = "rs_gauge"
    /\ uniqueMetricsGauge' = 0
    /\ checksTotal' = 0
    /\ duplicatesTotal' = 0
    /\ Goto(p, "rs_unlock")
    /\ UNCHANGED <<mu, sentSignatures, args, signature, isDuplicate, issued, log>>

\* d.uniqueMetricsGauge.Set(0)
ResetGauge(p) ==
    /\ pc[p] = "rs_gauge"
    /\ uniqueMetricsGauge' = 0
    /\ Goto(p, "rs_unlock")
    /\ UNCHANGED <<mu, sentSignatures, checksTotal, duplicatesTotal,
                   args, signature, isDuplicate, issued, log>>

ResetUnlock(p) == Unlock(p, "rs_unlock", "Reset")

CheckAndMark(p) ==
    \/ CheckAndMarkLock(p)
    \/ CheckAndMarkInc(p)
    \/ CheckAndMarkTest(p)
    \/ CheckAndMarkDup(p)
    \/ CheckAndMarkInsert(p)
    \/ CheckAndMarkGauge(p)
    \/ CheckAndMarkUnlock(p)

RevertMark(p) ==
    \/ RevertMarkLock(p)
    \/ RevertMarkDelete(p)
    \/ RevertMarkGauge(p)
    \/ RevertMarkUnlock(p)

Reset(p) ==
    \/ ResetLock(p)
    \/ ResetClear(p)
    \/ ResetGauge(p)
    \/ ResetUnlock(p)

Next ==
    /\ UNCHANGED <<sigVars, hashVars, labelVars, instVars, sortVars, iterVars>>
    /\ \E p \in Procs :
          \/ \E t \in TupleIds : CallCheckAndMark(p, t)
          \/ \E t \in TupleIds : CallRevertMark(p, t)
          \/ CallReset(p)
          \/ CheckAndMark(p)
          \/ RevertMark(p)
          \/ Reset(p)

Spec == Init /\ [][Next]_vars

----------------------------------------------------------------------------
(* The signature computation on its own: hashLabelsTimestamp applied to    *)
(* every input within the bounds, and to the same input with its labels    *)
(* supplied in another order.                                              *)

SigInputs ==
    UNION { [name : SigNames, keys : [1..n -> SigKeys],
             values : [1..n -> SigValues], ts : SigTimes] : n \in 0..MaxLabels }

\* the bijections of 1..n
Perms(n) == {f \in [1..n -> 1..n] : \A i, j \in 1..n : f[i] = f[j] => i = j}

\* the sequence s with its entries supplied in the order f
Permuted(s, f) == [i \in 1..Len(s) |-> s[f[i]]]

InitSig ==
    /\ NewMetricDeduplicator
    /\ sigPc = "ready"
    /\ sigArgs \in SigInputs
    /\ sigPerm \in Perms(Len(sigArgs.keys))
    /\ sigOut = NoSig
    /\ sigOutPerm = NoSig
    /\ sigBytes = <<>>
    /\ sigCut = 0
    /\ sigOutShort = NoSig
    /\ sigOutPadded = NoSig
    /\ HashOff
    /\ InstancesOff
    /\ SortOff
    /\ IterOff
    /\ LabelsOff

SigCompute ==
    /\ sigPc = "ready"
    /\ sigOut' = hashLabelsTimestamp(sigArgs.name, sigArgs.keys, sigArgs.values, sigArgs.ts)
    /\ sigBytes' = foldedBytes(sigArgs.name, sigArgs.keys, sigArgs.values)
    /\ sigPc' = "hashed"
    /\ UNCHANGED <<sigArgs, sigPerm, sigOutPerm, sigCut, sigOutShort, sigOutPadded>>

SigComputePermuted ==
    /\ sigPc = "hashed"
    /\ sigOutPerm' = hashLabelsTimestamp(sigArgs.name, Permuted(sigArgs.keys, sigPerm),
                                         Permuted(sigArgs.values, sigPerm), sigArgs.ts)
    /\ sigPc' = "done"
    /\ UNCHANGED <<sigArgs, sigPerm, sigOut, sigBytes, sigCut, sigOutShort, sigOutPadded>>

\* the signature of the same labels with fewer values than keys, and with
\* empty strings in place of the values left out
SigComputeShort ==
    /\ sigPc = "done"
    /\ \E k \in 0..(Len(sigArgs.keys) - 1) :
          LET kept == SubSeq(sigArgs.values, 1, k)
              padded == [i \in DOMAIN sigArgs.keys |-> IF i <= k THEN kept[i] ELSE <<>>]
          IN  /\ sigCut' = k
              /\ sigOutShort' = hashLabelsTimestamp(sigArgs.name, sigArgs.keys, kept,
                                                    sigArgs.ts)
              /\ sigOutPadded' = hashLabelsTimestamp(sigArgs.name, sigArgs.keys, padded,
                                                     sigArgs.ts)
    /\ sigPc' = "short"
    /\ UNCHANGED <<sigArgs, sigPerm, sigOut, sigOutPerm, sigBytes>>

NextSig ==
    /\ UNCHANGED <<dedupVars, hashVars, labelVars, instVars, sortVars, iterVars>>
    /\ (SigCompute \/ SigComputePermuted \/ SigComputeShort)

SpecSig == InitSig /\ [][NextSig]_vars

----------------------------------------------------------------------------
(* package hash on its own: AddUint64 applied to a state and a value,      *)
(* the same value folded with AddByte one byte at a time, and the digest   *)
(* the old implementation gave.                                            *)

\* 0x0102030405060708
ByteOrderValue == U64(1800, 1286, 772, 258)

\* 0xDEADBEEFCAFEBABE
LargeValue == U64(47806, 51966, 48879, 57005)

MaxUint64 == U64(65535, 65535, 65535, 65535)

Zero64 == U64(0, 0, 0, 0)

\* the values of the tests, the values next to them, one-byte and
\* one-bit values, and the values that make (New XOR v) zero or 2^63
HashValues ==
    { Zero64, U64(1, 0, 0, 0), U64(42, 0, 0, 0), U64(43, 0, 0, 0), U64(255, 0, 0, 0),
      U64(256, 0, 0, 0), U64(0, 0, 0, 32768), LargeValue, U64(47807, 51966, 48879, 57005),
      MaxUint64, TsNoon, U64(32769, 911, 60068, 6018), TsNoonPlus1s, ByteOrderValue,
      offset64, Xor64(offset64, U64(0, 0, 0, 32768)) }

\* the states AddUint64 starts from: New(), New() after a name, the extremes
HashStates == { New, AddByte(Add(New, StrM), SeparatorByte), Zero64, MaxUint64 }

InitHash ==
    /\ NewMetricDeduplicator
    /\ SigOff
    /\ hashPc = "ready"
    /\ hashStart \in HashStates
    /\ testValue \in HashValues
    /\ result = NoSig
    /\ h2 = NoSig
    /\ bytesLeft = NoSig
    /\ bytesDone = 0
    /\ oldResult = NoSig
    /\ LabelsOff
    /\ InstancesOff
    /\ SortOff
    /\ IterOff

\* result := AddUint64(h, testValue); h2 starts from the same state
HashAddUint64 ==
    /\ hashPc = "ready"
    /\ result' = AddUint64(hashStart, testValue)
    /\ h2' = hashStart
    /\ bytesLeft' = testValue
    /\ hashPc' = "fold"
    /\ UNCHANGED <<hashStart, testValue, bytesDone, oldResult>>

\* for _, b := range bytes { h2 = AddByte(h2, b) }, bytes listed LSB first
HashFoldByte ==
    /\ hashPc = "fold"
    /\ bytesDone < 8
    /\ h2' = AddByte(h2, bytesLeft[1] % ByteBase)
    /\ bytesLeft' = ShiftRight8(bytesLeft)
    /\ bytesDone' = bytesDone + 1
    /\ hashPc' = IF bytesDone = 7 THEN "old" ELSE "fold"
    /\ UNCHANGED <<hashStart, testValue, result, oldResult>>

\* oldResult := h2 ^ testValue; oldResult *= prime64
HashOldImplementation ==
    /\ hashPc = "old"
    /\ oldResult' = Mul64(Xor64(hashStart, testValue), prime64)
    /\ hashPc' = "done"
    /\ UNCHANGED <<hashStart, testValue, result, h2, bytesLeft, bytesDone>>

NextHash ==
    /\ UNCHANGED <<dedupVars, sigVars, labelVars, instVars, sortVars, iterVars>>
    /\ (HashAddUint64 \/ HashFoldByte \/ HashOldImplementation)

SpecHash == InitHash /\ [][NextHash]_vars

----------------------------------------------------------------------------
(* CheckAndMark on samples that differ in the name or in a label value:   *)
(* the goroutines submit the samples of DistinctTuples to one             *)
(* deduplicator.                                                           *)

NextDistinct ==
    /\ UNCHANGED <<sigVars, hashVars, labelVars, instVars, sortVars, iterVars>>
    /\ \E p \in Procs :
          \/ \E t \in DistinctIds : CallCheckAndMark(p, t)
          \/ CheckAndMark(p)

SpecDistinct == Init /\ [][NextDistinct]_vars

----------------------------------------------------------------------------
(* Scrape iterations: CheckAndMark, RevertMark and Reset as in Spec, with  *)
(* a record of the CheckAndMark calls that were waiting for d.mu while a   *)
(* Reset emptied the set, and of the set and the gauge each call left at   *)
(* its return.  late, lateLog and snapshots only observe the calls.        *)

NextIterations ==
    /\ UNCHANGED <<sigVars, hashVars, labelVars, instVars, sortVars>>
    /\ \E p \in Procs :
          \/ \E t \in TupleIds : CallCheckAndMark(p, t)
          \/ \E t \in TupleIds : CallRevertMark(p, t)
          \/ CallReset(p)
          \/ CheckAndMark(p)
          \/ RevertMark(p)
          \/ Reset(p)
    /\ late' = [p \in Procs |->
                  IF pc'[p] = "idle" THEN FALSE
                  ELSE IF /\ pc[p] = "cam_lock" /\ pc'[p] = "cam_lock"
                          /\ \E q \in Procs : pc[q] = "rs_clear" /\ pc'[q] # "rs_clear"
                       THEN TRUE
                       ELSE late[p]]
    /\ lateLog' = IF \E p \in Procs : late[p] /\ pc[p] = "cam_unlock" /\ pc'[p] = "idle"
                  THEN lateLog \cup {Len(log')}
                  ELSE lateLog
    /\ snapshots' = IF Len(log') > Len(log)
                    THEN Append(snapshots, [set   |-> sentSignatures',
                                            gauge |-> uniqueMetricsGauge'])
                    ELSE snapshots

SpecIterations == Init /\ [][NextIterations]_vars

----------------------------------------------------------------------------
(* The calls under fair scheduling.  The Go scheduler runs every runnable  *)
(* goroutine, so a step that stays possible is taken; sync.Mutex hands the *)
(* lock to a goroutine that keeps waiting for it (starvation mode), so a   *)
(* Lock that is possible again and again is taken.                         *)

\* d.mu.Lock() of any of the three calls
Acquire(p) == CheckAndMarkLock(p) \/ RevertMarkLock(p) \/ ResetLock(p)

\* the steps of a call between d.mu.Lock() and the return
Proceed(p) ==
    \/ CheckAndMarkInc(p)
    \/ CheckAndMarkTest(p)
    \/ CheckAndMarkDup(p)
    \/ CheckAndMarkInsert(p)
    \/ CheckAndMarkGauge(p)
    \/ CheckAndMarkUnlock(p)
    \/ RevertMarkDelete(p)
    \/ RevertMarkGauge(p)
    \/ RevertMarkUnlock(p)
    \/ ResetClear(p)
    \/ ResetGauge(p)
    \/ ResetUnlock(p)

Fairness == \A p \in Procs : WF_dedupVars(Proceed(p)) /\ SF_dedupVars(Acquire(p))

\* the calls are made with two samples of different signatures: marked,
\* duplicate, reverted and missed are the paths of the calls
FairTuples == {1, 3}

NextFair ==
    /\ UNCHANGED <<sigVars, hashVars, labelVars, instVars, sortVars, iterVars>>
    /\ \E p \in Procs :
          \/ \E t \in FairTuples : CallCheckAndMark(p, t)
          \/ \E t \in FairTuples : CallRevertMark(p, t)
          \/ CallReset(p)
          \/ Acquire(p)
          \/ Proceed(p)

SpecFair == Init /\ [][NextFair]_vars /\ Fairness

----------------------------------------------------------------------------
(* CheckAndMark applied to the sample without labels, supplied with empty  *)
(* slices and with nil.                                                    *)

NextEmptyLabels ==
    /\ UNCHANGED <<sigVars, hashVars, labelVars, instVars, sortVars, iterVars>>
    /\ \E p \in Procs :
          \/ \E t \in {EmptyId, NilId} : CallCheckAndMark(p, t)
          \/ CheckAndMark(p)

SpecEmptyLabels == Init /\ [][NextEmptyLabels]_vars

----------------------------------------------------------------------------
(* Label assembly: the unit label, then the metric, resource, user and     *)
(* system labels, as reportTimeSeriesMetrics merges them.  Indices are     *)
(* Go's (from 0); a sequence position is the index plus one.               *)

RECURSIVE findKeyIndexFrom(_, _, _)
findKeyIndexFrom(keys, key, i) ==
    IF i > Len(keys) THEN -1
    ELSE IF keys[i] = key THEN i - 1
    ELSE findKeyIndexFrom(keys, key, i + 1)

\* index of the last entry equal to key
findKeyIndex_LastMatch(keys, key) ==
    LET at == {i \in DOMAIN keys : keys[i] = key}
    IN  IF at = {} THEN -1 ELSE (CHOOSE i \in at : \A j \in at : j <= i) - 1

\* index of the first entry equal to key, -1 when there is none
findKeyIndex(keys, key) == findKeyIndexFrom(keys, key, 1)

keyExists(keys, key) == findKeyIndex(keys, key) # -1

\* the value replaced at the last entry equal to key
addOrOverrideLabels_LastOccurrence(keys, values, key, value, override) ==
    LET at == {i \in DOMAIN keys : keys[i] = key}
    IN  IF at = {} THEN <<Append(keys, key), Append(values, value)>>
        ELSE IF override
             THEN <<keys, [values EXCEPT ![CHOOSE i \in at : \A j \in at : j <= i] = value]>>
             ELSE <<keys, values>>

\* append when absent; when present replace the value only if override
addOrOverrideLabels(keys, values, key, value, override) ==
    LET idx == findKeyIndex(keys, key)
    IN  IF idx = -1 THEN <<Append(keys, key), Append(values, value)>>
        ELSE IF override THEN <<keys, [values EXCEPT ![idx + 1] = value]>>
        ELSE <<keys, values>>

\* the pair appended whether or not the key is present
appendIfAbsent_Always(keys, values, key, value) ==
    <<Append(keys, key), Append(values, value)>>

\* a key already present takes the value of the later source
appendIfAbsent_LastWins(keys, values, key, value) ==
    addOrOverrideLabels(keys, values, key, value, TRUE)

\* the key appended without its value
appendIfAbsent_KeyOnly(keys, values, key, value) ==
    IF ~keyExists(keys, key) THEN <<Append(keys, key), values>> ELSE <<keys, values>>

\* if !collector.keyExists(labelKeys, key) { append key; append value }
appendIfAbsent(keys, values, key, value) ==
    IF ~keyExists(keys, key)
    THEN <<Append(keys, key), Append(values, value)>>
    ELSE <<keys, values>>

\* whatever key/value text the document holds, taken from any shape
parseSystemLabels_Lenient(raw) == raw.pairs

\* the payload decoded: the pairs of an object in document order, nothing
\* for any other shape
parseSystemLabels(raw) == IF raw.shape = "object" THEN raw.pairs ELSE <<>>

\* the pairs of the payload taken from the last to the first
RECURSIVE addSystemLabelsFrom_Backwards(_, _, _, _)
addSystemLabelsFrom_Backwards(pairs, keys, values, i) ==
    IF i > Len(pairs) THEN <<keys, values>>
    ELSE LET at == Len(pairs) + 1 - i
             r == appendIfAbsent(keys, values, pairs[at][1], pairs[at][2])
         IN  addSystemLabelsFrom_Backwards(pairs, r[1], r[2], i + 1)

RECURSIVE addSystemLabelsFrom(_, _, _, _)
addSystemLabelsFrom(pairs, keys, values, i) ==
    IF i > Len(pairs) THEN <<keys, values>>
    ELSE LET r == appendIfAbsent(keys, values, pairs[i][1], pairs[i][2])
         IN  addSystemLabelsFrom(pairs, r[1], r[2], i + 1)

\* every pair of the payload whose key is not present yet, appended
addSystemLabels(raw, keys, values) ==
    addSystemLabelsFrom(parseSystemLabels(raw), keys, values, 1)

\* user labels before system labels whatever the flag
NextPhase_UserFirst(phase) ==
    IF phase = "resource" THEN "user"
    ELSE IF phase = "user" THEN "system"
    ELSE "done"

\* system labels before user labels whatever the flag
NextPhase_SystemFirst(phase) ==
    IF phase = "resource" THEN "system"
    ELSE IF phase = "system" THEN "user"
    ELSE "done"

\* the flag read the wrong way round
NextPhase_FlagInverted(phase) ==
    IF phase = "resource" THEN (IF userLabelsOverride THEN "system" ELSE "user")
    ELSE IF phase = "user" THEN (IF userLabelsOverride THEN "done" ELSE "system")
    ELSE (IF userLabelsOverride THEN "user" ELSE "done")

\* if collector.userLabelsOverride { user, then system } else { system, then user }
NextPhase(phase) ==
    IF phase = "resource" THEN (IF userLabelsOverride THEN "user" ELSE "system")
    ELSE IF phase = "user" THEN (IF userLabelsOverride THEN "system" ELSE "done")
    ELSE (IF userLabelsOverride THEN "done" ELSE "user")

\* the range over the resource labels visits nothing
PendingOf_NoResource(phase) ==
    IF phase = "metric" THEN DOMAIN metricLabels
    ELSE IF phase = "user" THEN DOMAIN userLabels
    ELSE {}

\* the keys a range loop over the map of a phase visits
PendingOf(phase) ==
    IF phase = "metric" THEN DOMAIN metricLabels
    ELSE IF phase = "resource" THEN DOMAIN resourceLabels
    ELSE IF phase = "user" THEN DOMAIN userLabels
    ELSE {}

UnitKey == "unit"

LabelKeyNames == {UnitKey, "region", "app"}

\* number of labels one source carries at most
MaxSourceLabels == 2

SourceKeySets == {S \in SUBSET LabelKeyNames : Cardinality(S) <= MaxSourceLabels}

\* the maps a source can be; every label of a source carries the source's value
MapsWith(value) == {[k \in S |-> value] : S \in SourceKeySets}

\* the key orders of a JSON object
PayloadKeySeqs ==
    UNION { {q \in [1..n -> LabelKeyNames] : \A i, j \in 1..n : q[i] = q[j] => i = j}
            : n \in 0..MaxSourceLabels }

\* well-formed objects, and the payloads that are no object: empty input
\* and null, which hold no text, and an array and unparsable text, which
\* hold a key and a value (["region", "system_value"], {region: system_value})
SystemPayloads ==
    { [shape |-> "object", pairs |-> [i \in DOMAIN q |-> <<q[i], "system_value">>]]
      : q \in PayloadKeySeqs }
    \cup { [shape |-> m, pairs |-> <<>>] : m \in {"empty", "null"} }
    \cup { [shape |-> m, pairs |-> << <<"region", "system_value">> >>]
           : m \in {"array", "invalid"} }

InitLabels ==
    /\ NewMetricDeduplicator
    /\ SigOff
    /\ HashOff
    /\ InstancesOff
    /\ SortOff
    /\ IterOff
    /\ lblPc = "start"
    /\ unitLabel = "bytes"
    /\ metricLabels \in MapsWith("metric_value")
    /\ resourceLabels \in MapsWith("resource_value")
    /\ userLabels \in MapsWith("user_value")
    /\ systemLabelsJSON \in SystemPayloads
    /\ enableSystemLabels \in BOOLEAN
    /\ userLabelsOverride \in BOOLEAN
    /\ lblKeys = <<>>
    /\ lblValues = <<>>
    /\ pending = {}
    /\ tt = NoTest
    /\ foundIndex = NotSearched
    /\ foundExists = FALSE

LabelInputs == <<unitLabel, metricLabels, resourceLabels, userLabels, systemLabelsJSON,
                 enableSystemLabels, userLabelsOverride>>

LookupResults == <<foundIndex, foundExists>>

\* labelKeys := []string{"unit"}; labelValues := []string{tt.unitLabel}
LabelSeed ==
    /\ lblPc = "start"
    /\ lblKeys' = <<UnitKey>>
    /\ lblValues' = <<unitLabel>>
    /\ lblPc' = "metric"
    /\ pending' = PendingOf("metric")
    /\ UNCHANGED <<LabelInputs, tt, LookupResults>>

\* one iteration of for key, value := range labels, in whatever order the
\* map yields its keys; when the map is exhausted the next phase begins
RangeLabels(phase, labels, next) ==
    /\ lblPc = phase
    /\ IF pending = {}
       THEN /\ lblPc' = next
            /\ pending' = PendingOf(next)
            /\ UNCHANGED <<lblKeys, lblValues>>
       ELSE \E key \in pending :
               LET r == appendIfAbsent(lblKeys, lblValues, key, labels[key])
               IN  /\ lblKeys' = r[1]
                   /\ lblValues' = r[2]
                   /\ pending' = pending \ {key}
                   /\ lblPc' = lblPc
    /\ UNCHANGED <<LabelInputs, tt, LookupResults>>

AppendMetricLabels == RangeLabels("metric", metricLabels, "resource")

AppendResourceLabels == RangeLabels("resource", resourceLabels, NextPhase("resource"))

AppendUserLabels == RangeLabels("user", userLabels, NextPhase("user"))

\* the payload added although the switch is off
CallAddSystemLabels_Unguarded ==
    /\ lblPc = "system"
    /\ LET r == addSystemLabels(systemLabelsJSON, lblKeys, lblValues)
       IN  lblKeys' = r[1] /\ lblValues' = r[2]
    /\ lblPc' = NextPhase("system")
    /\ pending' = PendingOf(NextPhase("system"))
    /\ UNCHANGED <<LabelInputs, tt, LookupResults>>

\* if collector.enableSystemLabels { collector.addSystemLabels(rawMessage, &labelKeys, &labelValues) }
CallAddSystemLabels ==
    /\ lblPc = "system"
    /\ LET r == IF enableSystemLabels
                THEN addSystemLabels(systemLabelsJSON, lblKeys, lblValues)
                ELSE <<lblKeys, lblValues>>
       IN  lblKeys' = r[1] /\ lblValues' = r[2]
    /\ lblPc' = NextPhase("system")
    /\ pending' = PendingOf(NextPhase("system"))
    /\ UNCHANGED <<LabelInputs, tt, LookupResults>>

\* collector.addOrOverrideLabels(&labelKeys, &labelValues, key, value, override)
\* on the assembled label set
CallAddOrOverrideLabels ==
    /\ lblPc = "done"
    /\ \E key \in LabelKeyNames \cup {"new_key"}, override \in BOOLEAN :
          LET r == addOrOverrideLabels(lblKeys, lblValues, key, "new_value", override)
          IN  /\ lblKeys' = r[1] /\ lblValues' = r[2]
              /\ tt' = [name |-> "assembled", initialKeys |-> lblKeys,
                        initialValues |-> lblValues, addKey |-> key,
                        addValue |-> "new_value", override |-> override,
                        searchKey |-> key]
    /\ lblPc' = "overridden"
    /\ pending' = {}
    /\ UNCHANGED <<LabelInputs, LookupResults>>

NextLabels ==
    /\ UNCHANGED <<dedupVars, sigVars, hashVars, instVars, sortVars, iterVars>>
    /\ \/ LabelSeed
       \/ AppendMetricLabels
       \/ AppendResourceLabels
       \/ AppendUserLabels
       \/ CallAddSystemLabels
       \/ CallAddOrOverrideLabels

SpecLabels == InitLabels /\ [][NextLabels]_vars

----------------------------------------------------------------------------
(* The assembly of sources that each have keys of their own: up to two     *)
(* metric, two resource, two user and two system labels.  The user labels  *)
(* may also carry the system key "cluster", so that the sources are not    *)
(* disjoint in every case.                                                 *)

MetricKeyNames == {"instance_name", "method"}

ResourceKeyNames == {"project_id", "zone"}

UserKeyNames == {"environment", "team", "cluster"}

SystemKeyNames == {"cluster", "namespace"}

MapsOver(names, value) == {[k \in S |-> value] : S \in SUBSET names}

ObjectsOver(names) ==
    { [shape |-> "object", pairs |-> [i \in DOMAIN q |-> <<q[i], "system_value">>]]
      : q \in UNION { {r \in [1..n -> names] : \A i, j \in 1..n : r[i] = r[j] => i = j}
                      : n \in 0..Cardinality(names) } }

InitAllSources ==
    /\ NewMetricDeduplicator
    /\ SigOff
    /\ HashOff
    /\ InstancesOff
    /\ SortOff
    /\ IterOff
    /\ lblPc = "start"
    /\ unitLabel = "bytes"
    /\ metricLabels \in MapsOver(MetricKeyNames, "metric_value")
    /\ resourceLabels \in MapsOver(ResourceKeyNames, "resource_value")
    /\ userLabels \in MapsOver(UserKeyNames, "user_value")
    /\ systemLabelsJSON \in ObjectsOver(SystemKeyNames)
                             \cup {p \in SystemPayloads : p.shape # "object"}
    /\ enableSystemLabels \in BOOLEAN
    /\ userLabelsOverride \in BOOLEAN
    /\ lblKeys = <<>>
    /\ lblValues = <<>>
    /\ pending = {}
    /\ tt = NoTest
    /\ foundIndex = NotSearched
    /\ foundExists = FALSE

SpecAllSources == InitAllSources /\ [][NextLabels]_vars

----------------------------------------------------------------------------
(* The table-driven tests of findKeyIndex, keyExists and                   *)
(* addOrOverrideLabels: the primitives applied to label sets that need not *)
(* come from an assembly, so that a key may stand in them more than once.  *)

\* length of the label sets of the test cases
MaxKeys == 3

\* the empty key, and two keys that differ in case only
TestKeys == {"", "key", "Key"}

TestValueAt == <<"value1", "value2", "value3", "value4">>

TestKeySeqs == UNION { [1..n -> TestKeys] : n \in 0..MaxKeys }

TestCases ==
    { [name |-> "table", initialKeys |-> ks,
       initialValues |-> [i \in DOMAIN ks |-> TestValueAt[i]],
       addKey |-> ak, addValue |-> "new_value", override |-> ov, searchKey |-> sk]
      : ks \in TestKeySeqs, ak \in TestKeys, ov \in BOOLEAN, sk \in TestKeys }

\* copy(labelKeys, tt.initialKeys); copy(labelValues, tt.initialValues)
InitPrimitives ==
    /\ NewMetricDeduplicator
    /\ SigOff
    /\ HashOff
    /\ InstancesOff
    /\ SortOff
    /\ IterOff
    /\ lblPc = "t_start"
    /\ unitLabel = ""
    /\ metricLabels = EmptyMap
    /\ resourceLabels = EmptyMap
    /\ userLabels = EmptyMap
    /\ systemLabelsJSON = [shape |-> "empty", pairs |-> <<>>]
    /\ enableSystemLabels = FALSE
    /\ userLabelsOverride = FALSE
    /\ tt \in TestCases
    /\ lblKeys = tt.initialKeys
    /\ lblValues = tt.initialValues
    /\ pending = {}
    /\ foundIndex = NotSearched
    /\ foundExists = FALSE

\* result := collector.findKeyIndex(tt.keys, tt.searchKey)
TestFindKeyIndex ==
    /\ lblPc = "t_start"
    /\ foundIndex' = findKeyIndex(lblKeys, tt.searchKey)
    /\ lblPc' = "t_index"
    /\ UNCHANGED <<LabelInputs, lblKeys, lblValues, pending, tt, foundExists>>

\* result := collector.keyExists(tt.labelKeys, tt.searchKey)
TestKeyExists ==
    /\ lblPc = "t_index"
    /\ foundExists' = keyExists(lblKeys, tt.searchKey)
    /\ lblPc' = "t_exists"
    /\ UNCHANGED <<LabelInputs, lblKeys, lblValues, pending, tt, foundIndex>>

\* collector.addOrOverrideLabels(&labelKeys, &labelValues, tt.addKey, tt.addValue, tt.override)
TestAddOrOverride ==
    /\ lblPc = "t_exists"
    /\ LET r == addOrOverrideLabels(lblKeys, lblValues, tt.addKey, tt.addValue, tt.override)
       IN  lblKeys' = r[1] /\ lblValues' = r[2]
    /\ lblPc' = "t_done"
    /\ UNCHANGED <<LabelInputs, pending, tt, LookupResults>>

NextPrimitives ==
    /\ UNCHANGED <<dedupVars, sigVars, hashVars, instVars, sortVars, iterVars>>
    /\ \/ TestFindKeyIndex
       \/ TestKeyExists
       \/ TestAddOrOverride

SpecPrimitives == InitPrimitives /\ [][NextPrimitives]_vars

----------------------------------------------------------------------------
(* Several deduplicators.  A deduplicator holds references: its map and    *)
(* its three metrics are objects of their own, and the struct holds their  *)
(* addresses.  Each call is taken as a whole, as it runs under d.mu.       *)

\* number of deduplicators constructed at most
NumInstances == 2

Fields == {"sentSignatures", "duplicatesTotal", "checksTotal", "uniqueMetricsGauge"}

\* one counter object serves every deduplicator
newMetricDeduplicatorAt_SharedCounter(base) ==
    [sentSignatures |-> base + 1, duplicatesTotal |-> base + 2,
     checksTotal |-> 3, uniqueMetricsGauge |-> base + 4]

\* the struct NewMetricDeduplicator returns: make(map[uint64]struct{}),
\* prometheus.NewCounter twice and prometheus.NewGauge give four new objects
newMetricDeduplicatorAt(base) ==
    [sentSignatures |-> base + 1, duplicatesTotal |-> base + 2,
     checksTotal |-> base + 3, uniqueMetricsGauge |-> base + 4]

InitInstances ==
    /\ NewMetricDeduplicator
    /\ SigOff
    /\ HashOff
    /\ LabelsOff
    /\ InstancesOff
    /\ SortOff
    /\ IterOff

Construct ==
    /\ Len(instances) < NumInstances
    /\ instances' = Append(instances, newMetricDeduplicatorAt(Len(heap)))
    /\ heap' = heap \o <<{}, 0, 0, 0>>
    /\ lastCall' = [d |-> Len(instances) + 1, op |-> "New", t |-> NoTuple]
    /\ UNCHANGED instCalls

\* d.CheckAndMark(name, labelKeys, labelValues, ts)
InstCheckAndMark(d, t) ==
    LET m == instances[d]
        counted == [heap EXCEPT ![m.checksTotal] = @ + 1]
    IN  /\ instCalls < MaxCalls
        /\ heap' = IF SigOf[t] \in heap[m.sentSignatures]
                   THEN [counted EXCEPT ![m.duplicatesTotal] = @ + 1]
                   ELSE LET marked == [counted EXCEPT ![m.sentSignatures] = @ \cup {SigOf[t]}]
                        IN  [marked EXCEPT ![m.uniqueMetricsGauge] =
                                               Cardinality(marked[m.sentSignatures])]
        /\ lastCall' = [d |-> d, op |-> "CheckAndMark", t |-> t]
        /\ instCalls' = instCalls + 1
        /\ UNCHANGED instances

\* d.RevertMark(fqName, labelKeys, labelValues, ts)
InstRevertMark(d, t) ==
    LET m == instances[d]
        deleted == [heap EXCEPT ![m.sentSignatures] = @ \ {SigOf[t]}]
    IN  /\ instCalls < MaxCalls
        /\ heap' = [deleted EXCEPT ![m.uniqueMetricsGauge] =
                                       Cardinality(deleted[m.sentSignatures])]
        /\ lastCall' = [d |-> d, op |-> "RevertMark", t |-> t]
        /\ instCalls' = instCalls + 1
        /\ UNCHANGED instances

\* d.Reset(): the field is given a new map
InstReset(d) ==
    LET m == instances[d]
    IN  /\ instCalls < MaxCalls
        /\ instances' = [instances EXCEPT ![d].sentSignatures = Len(heap) + 1]
        /\ heap' = Append([heap EXCEPT ![m.uniqueMetricsGauge] = 0], {})
        /\ lastCall' = [d |-> d, op |-> "Reset", t |-> NoTuple]
        /\ instCalls' = instCalls + 1

NextInstances ==
    /\ UNCHANGED <<dedupVars, sigVars, hashVars, labelVars, sortVars, iterVars>>
    /\ \/ Construct
       \/ \E d \in DOMAIN instances, t \in TupleIds : InstCheckAndMark(d, t)
       \/ \E d \in DOMAIN instances, t \in TupleIds : InstRevertMark(d, t)
       \/ \E d \in DOMAIN instances : InstReset(d)

SpecInstances == InitInstances /\ [][NextInstances]_vars

----------------------------------------------------------------------------
(* sort.Slice on its own.  sort.Slice is not a stable sort: it orders the  *)
(* slice by less and promises nothing about elements that less does not    *)
(* order.  Go's implementation is an insertion sort for slices of at most  *)
(* 12 elements, which is what sortSlice computes; for longer slices every  *)
(* order that less allows is an outcome.                                   *)

MaxInsertion == 12

\* the orders of the indices in rest, each appended to done, in which no
\* index precedes one with a smaller key
RECURSIVE KeySortedFrom(_, _, _)
KeySortedFrom(done, rest, labelKeys) ==
    IF rest = {} THEN {done}
    ELSE UNION { KeySortedFrom(Append(done, i), rest \ {i}, labelKeys)
                 : i \in {m \in rest :
                            \A o \in rest : ~StrLess(labelKeys[o], labelKeys[m])} }

\* what sort.Slice(indices, less) may leave in indices
sortSliceOutcomes(indices, labelKeys) ==
    IF Len(indices) <= MaxInsertion
    THEN {sortSlice(indices, labelKeys)}
    ELSE KeySortedFrom(<<>>, {indices[i] : i \in DOMAIN indices}, labelKeys)

\* number of labels of the short inputs
MaxSortLabels == 3

\* thirteen labels with keys "b" to "n" in ascending order
LongKeys == [i \in 1..(MaxInsertion + 1) |-> <<97 + i>>]

\* short label lists over the keys of the signature inputs, the thirteen
\* labels, and the thirteen labels with the first key equal to a later one
SortInputs ==
    UNION { [1..n -> SigKeys] : n \in 0..MaxSortLabels }
    \cup {LongKeys}
    \cup { [LongKeys EXCEPT ![1] = LongKeys[k]] : k \in 2..(MaxInsertion + 1) }

\* indices := make([]int, len(labelKeys)); for i := range indices { indices[i] = i }
InitSort ==
    /\ NewMetricDeduplicator
    /\ SigOff
    /\ HashOff
    /\ LabelsOff
    /\ InstancesOff
    /\ IterOff
    /\ sortPc = "ready"
    /\ sortKeys \in SortInputs
    /\ sortIndices = [i \in DOMAIN sortKeys |-> i]

SortSlice ==
    /\ sortPc = "ready"
    /\ sortIndices' \in sortSliceOutcomes(sortIndices, sortKeys)
    /\ sortPc' = "sorted"
    /\ UNCHANGED sortKeys

NextSort ==
    /\ UNCHANGED <<dedupVars, sigVars, hashVars, labelVars, instVars, iterVars>>
    /\ SortSlice

SpecSort == InitSort /\ [][NextSort]_vars

----------------------------------------------------------------------------
(* Reading the log of returned calls.  Calls return in the order in which  *)
(* they held d.mu, so the log is the order of the critical sections.       *)

IsCheckAndMark(e) == e.op = "CheckAndMark"

IsRevertMark(e) == e.op = "RevertMark"

IsReset(e) == e.op = "Reset"

\* the (key, value) pairs of a sample
LabelPairs(t) ==
    {<<TupleTable[t].keys[i], TupleTable[t].values[i]>> : i \in DOMAIN TupleTable[t].keys}

\* the same sample: same name, same timestamp, same (key, value) pairs
SameSample(a, b) ==
    /\ TupleTable[a].name = TupleTable[b].name
    /\ TupleTable[a].ts = TupleTable[b].ts
    /\ LabelPairs(a) = LabelPairs(b)

\* no Reset and no RevertMark returned strictly between log positions i and j
NoBoundaryBetween(i, j) ==
    \A k \in (i + 1)..(j - 1) : IsCheckAndMark(log[k])

\* position of the last Reset before position j, 0 if there is none
LastResetBefore(j) ==
    LET rs == {r \in 1..(j - 1) : IsReset(log[r])}
    IN  IF rs = {} THEN 0 ELSE CHOOSE r \in rs : \A q \in rs : q <= r

AllIdle == \A p \in Procs : pc[p] = "idle"

\* the CheckAndMark calls that have made their membership test and have not
\* returned yet
Decided == {p \in Procs : pc[p] \in {"cam_dup", "cam_insert", "cam_gauge", "cam_unlock"}}

----------------------------------------------------------------------------
(* C1 *)

\* C1: within one scrape iteration (no Reset and no RevertMark in between)
\* the first CheckAndMark of a sample returns false and every later
\* CheckAndMark of the identical sample returns true, whatever the number
\* of repeats.
C1_IdempotentWithinIteration ==
    \A j \in 1..Len(log) :
        IsCheckAndMark(log[j]) =>
            /\ (\E i \in 1..(j - 1) :
                    /\ IsCheckAndMark(log[i])
                    /\ SameSample(log[i].t, log[j].t)
                    /\ NoBoundaryBetween(i, j))
               => log[j].ret = TRUE
            /\ (/\ NoBoundaryBetween(LastResetBefore(j), j)
                /\ \A i \in (LastResetBefore(j) + 1)..(j - 1) :
                       ~SameSample(log[i].t, log[j].t))
               => log[j].ret = FALSE

\* one sample checked three times in one iteration: false, true, true
C1_Witness ==
    /\ Len(log) >= 3
    /\ \A k \in 1..3 : IsCheckAndMark(log[k]) /\ log[k].t = log[1].t
    /\ log[1].ret = FALSE /\ log[2].ret = TRUE /\ log[3].ret = TRUE

----------------------------------------------------------------------------
(* C2 *)

\* the CheckAndMark calls among log positions a..b that carried signature sg
\* and returned false
FirstMarks(a, b, sg) ==
    {i \in a..b : IsCheckAndMark(log[i]) /\ log[i].sig = sg /\ log[i].ret = FALSE}

\* C2: test and insert are atomic.  Among the CheckAndMark calls of one
\* iteration that carry the same signature (no Reset and no RevertMark in
\* between), however they interleave, exactly one returns false and all the
\* others return true; a call that has made its test and not yet returned
\* counts with the value it is going to return.
C2_AtomicTestAndSet ==
    /\ \A b \in 1..Len(log) :
          LET a == LastResetBefore(b) + 1
          IN  (\A k \in a..b : IsCheckAndMark(log[k]))
              => \A k \in a..b : Cardinality(FirstMarks(a, b, log[k].sig)) = 1
    /\ LET a == LastResetBefore(Len(log) + 1) + 1
       IN  (\A k \in a..Len(log) : IsCheckAndMark(log[k]))
           => \A p \in Decided :
                 Cardinality(FirstMarks(a, Len(log), signature[p]))
                 + Cardinality({q \in Decided : signature[q] = signature[p] /\ ~isDuplicate[q]})
                 = 1

\* two goroutines are inside CheckAndMark with the same signature at the
\* same time: one holds the lock, has inserted and is about to return false,
\* the other waits for the lock
C2_Witness ==
    \E p, q \in Procs :
        /\ p # q
        /\ pc[p] = "cam_unlock" /\ isDuplicate[p] = FALSE /\ mu = p
        /\ pc[q] = "cam_lock"
        /\ SigOf[args[q]] = signature[p]
        /\ log = <<>>

----------------------------------------------------------------------------
(* C3 *)

\* the signatures checked so far
CheckedSignatures == {log[i].sig : i \in 1..Len(log)}

ChecksOf(sg) == {i \in 1..Len(log) : log[i].sig = sg}

\* every call so far was a CheckAndMark and has returned, and every signature
\* was checked m times.  Goroutines are not told apart in the log: this is the
\* workload of callers that each check their own signature m times, under
\* every way of spreading the calls over the goroutines.
OwnSignatureWorkload(m) ==
    /\ AllIdle
    /\ Len(log) > 0
    /\ \A i \in 1..Len(log) : IsCheckAndMark(log[i])
    /\ \A sg \in CheckedSignatures : Cardinality(ChecksOf(sg)) = m

\* C3: N concurrent callers, each calling CheckAndMark M times with its own
\* distinct signature on a fresh deduplicator: once all calls have returned
\* the set holds N signatures, the gauge is N, checks = N*M and
\* duplicates = N*(M-1), under every interleaving.
C3_ConcurrentCallers ==
    \A m \in 1..MaxCalls :
        OwnSignatureWorkload(m) =>
            LET n == Cardinality(CheckedSignatures)
            IN  /\ Cardinality(sentSignatures) = n
                /\ uniqueMetricsGauge = n
                /\ checksTotal = n * m
                /\ duplicatesTotal = n * (m - 1)

\* two signatures, two calls each, returning in alternation
C3_Witness ==
    /\ OwnSignatureWorkload(2)
    /\ Len(log) = 4
    /\ log[1].sig # log[2].sig
    /\ log[3].sig = log[1].sig
    /\ log[4].sig = log[2].sig
    /\ checksTotal = 4
    /\ duplicatesTotal = 2
    /\ uniqueMetricsGauge = 2

----------------------------------------------------------------------------
(* C4 *)

\* C4: whenever no call holds d.mu, the unique-metrics gauge equals the
\* number of signatures in the set, under any interleaving of CheckAndMark,
\* RevertMark and Reset.
C4_GaugeMirrorsSet ==
    mu = 0 => uniqueMetricsGauge = Cardinality(sentSignatures)

\* the lock is free after an insert, a revert and a reset, and the set is
\* not empty
C4_Witness ==
    /\ mu = 0
    /\ sentSignatures # {}
    /\ uniqueMetricsGauge = Cardinality(sentSignatures)
    /\ \E i \in 1..Len(log) : IsRevertMark(log[i])
    /\ \E i \in 1..Len(log) : IsReset(log[i])

----------------------------------------------------------------------------
(* C5 *)

\* C5: after Reset the signature set is empty.  For every sample marked
\* before a Reset, the first CheckAndMark after the Reset returns false
\* again and a second identical call after it returns true.
C5_ResetIsolation ==
    /\ \A p \in Procs : pc[p] \in {"rs_gauge", "rs_unlock"} => sentSignatures = {}
    /\ (Len(log) > 0 /\ IsReset(log[Len(log)]) /\ mu = 0) => sentSignatures = {}
    /\ \A r \in 1..Len(log) : \A j \in (r + 1)..Len(log) :
          (/\ IsReset(log[r])
           /\ IsCheckAndMark(log[j])
           /\ \E i \in 1..(r - 1) :
                 IsCheckAndMark(log[i]) /\ SameSample(log[i].t, log[j].t))
          => /\ (\A k \in (r + 1)..(j - 1) :
                    ~(IsCheckAndMark(log[k]) /\ SameSample(log[k].t, log[j].t)))
                => log[j].ret = FALSE
             /\ (\E k \in (r + 1)..(j - 1) :
                    /\ IsCheckAndMark(log[k])
                    /\ SameSample(log[k].t, log[j].t)
                    /\ NoBoundaryBetween(k, j))
                => log[j].ret = TRUE

\* mark, Reset, then the same sample twice: false, then true
C5_Witness ==
    /\ Len(log) = 4
    /\ IsCheckAndMark(log[1]) /\ log[1].ret = FALSE
    /\ IsReset(log[2])
    /\ IsCheckAndMark(log[3]) /\ log[3].t = log[1].t /\ log[3].ret = FALSE
    /\ IsCheckAndMark(log[4]) /\ log[4].t = log[1].t /\ log[4].ret = TRUE

----------------------------------------------------------------------------
(* C6 *)

InReset(p) == pc[p] \in {"rs_lock", "rs_clear", "rs_gauge", "rs_unlock"}

\* C6: Reset leaves the checks counter and the duplicates counter unchanged
\* and sets the gauge to 0: no step of a Reset call changes a counter, and
\* the gauge reads 0 from the gauge update until the call has returned.
C6_ResetKeepsCounters ==
    [][\A p \in Procs :
          (InReset(p) /\ pc'[p] # pc[p])
          => /\ checksTotal' = checksTotal
             /\ duplicatesTotal' = duplicatesTotal
             /\ (pc'[p] \in {"rs_unlock", "idle"} => uniqueMetricsGauge' = 0)]_vars

\* the counters of the first iteration (2 checks, 1 duplicate) are still
\* there after the Reset and keep counting in the second
C6_Witness ==
    /\ Len(log) = 4
    /\ IsCheckAndMark(log[1]) /\ IsCheckAndMark(log[2]) /\ log[2].ret = TRUE
    /\ IsReset(log[3])
    /\ IsCheckAndMark(log[4])
    /\ checksTotal = 3
    /\ duplicatesTotal = 1
    /\ uniqueMetricsGauge = 1

----------------------------------------------------------------------------
(* C7 *)

\* the CheckAndMark calls that are past d.checksTotal.Inc()
PastInc == {p \in Procs : pc[p] \in {"cam_test", "cam_dup", "cam_insert", "cam_gauge", "cam_unlock"}}

\* the CheckAndMark calls that are past d.duplicatesTotal.Inc()
PastDup == {p \in Procs : pc[p] = "cam_unlock" /\ isDuplicate[p]}

ReturnedChecks == {i \in 1..Len(log) : IsCheckAndMark(log[i])}

ReturnedDuplicates == {i \in 1..Len(log) : IsCheckAndMark(log[i]) /\ log[i].ret}

\* C7: every CheckAndMark call adds exactly one to the checks counter,
\* whatever it returns, and exactly one to the duplicates counter iff it
\* returns true: at any moment checks is the number of calls that have passed
\* the increment, and once all calls have returned checks is the number of
\* CheckAndMark calls and duplicates the number of them that returned true.
C7_CountersCountCalls ==
    /\ checksTotal = Cardinality(ReturnedChecks) + Cardinality(PastInc)
    /\ duplicatesTotal = Cardinality(ReturnedDuplicates) + Cardinality(PastDup)

\* all calls returned: three checks of which two were duplicates, and one
\* call that was not a CheckAndMark
C7_Witness ==
    /\ AllIdle
    /\ Len(log) = 4
    /\ Cardinality(ReturnedChecks) = 3
    /\ Cardinality(ReturnedDuplicates) = 2
    /\ checksTotal = 3
    /\ duplicatesTotal = 2

----------------------------------------------------------------------------
(* C8 *)

\* C8: RevertMark removes exactly the signature of its tuple when it is in
\* the set and sets the gauge to the new size of the set; when the signature
\* is absent the set stays as it is; every other signature stays in place,
\* and the call returns normally in both cases.
C8_RevertMarkRemovesOne ==
    [][\A p \in Procs :
          /\ (pc[p] = "rm_delete" /\ pc'[p] # pc[p])
             => /\ sentSignatures' = sentSignatures \ {SigOf[args[p]]}
                /\ (SigOf[args[p]] \notin sentSignatures => sentSignatures' = sentSignatures)
                /\ \A sg \in sentSignatures : sg # SigOf[args[p]] => sg \in sentSignatures'
          /\ (pc[p] = "rm_gauge" /\ pc'[p] # pc[p])
             => /\ sentSignatures' = sentSignatures
                /\ uniqueMetricsGauge' = Cardinality(sentSignatures')
                /\ pc'[p] = "rm_unlock"
          /\ (pc[p] = "rm_unlock" /\ pc'[p] # pc[p])
             => /\ pc'[p] = "idle"
                /\ sentSignatures' = sentSignatures
                /\ uniqueMetricsGauge' = uniqueMetricsGauge]_vars

\* two samples marked, one reverted twice: the first revert removed its
\* signature, the second found it absent, the other signature is still there
C8_Witness ==
    /\ Len(log) = 4
    /\ IsCheckAndMark(log[1]) /\ IsCheckAndMark(log[2])
    /\ log[1].sig # log[2].sig
    /\ IsRevertMark(log[3]) /\ log[3].t = log[1].t
    /\ IsRevertMark(log[4]) /\ log[4].t = log[1].t
    /\ sentSignatures = {log[2].sig}
    /\ uniqueMetricsGauge = 1

----------------------------------------------------------------------------
(* C9 *)

\* labels that share a key share the value too (true of every label set whose
\* keys are unique)
EqualKeysEqualValues(a) ==
    \A i, j \in DOMAIN a.keys : a.keys[i] = a.keys[j] => a.values[i] = a.values[j]

\* C9 as stated: for any name, any timestamp and any permutation of the
\* same (key, value) pairs the signature is identical.
C9_AnyPermutationSameSignature ==
    sigPc = "done" => sigOutPerm = sigOut

\* C9: for any name, any timestamp and any permutation of the same
\* (key, value) pairs in which labels sharing a key share the value (so for
\* every label set with unique keys) the signature is identical.
C9_PermutationSameSignature ==
    (sigPc = "done" /\ EqualKeysEqualValues(sigArgs)) => sigOutPerm = sigOut

\* two labels with different keys supplied in descending and in ascending
\* key order
C9_Witness ==
    /\ sigPc = "done"
    /\ Len(sigArgs.keys) = 2
    /\ StrLess(sigArgs.keys[2], sigArgs.keys[1])
    /\ sigPerm = <<2, 1>>
    /\ sigOutPerm = sigOut

----------------------------------------------------------------------------
(* C10 *)

\* every signature computed so far, with the sample it was computed for
Computed ==
    {<<log[i].t, log[i].sig>> : i \in {k \in 1..Len(log) : ~IsReset(log[k])}}
    \cup {<<args[p], signature[p]>> : p \in {q \in Procs : signature[q] # NoSig}}

----------------------------------------------------------------------------
(* C11 *)

\* the same name and the same (key, value) pairs under another timestamp
DiffersOnlyInTimestamp(a, b) ==
    /\ TupleTable[a].name = TupleTable[b].name
    /\ LabelPairs(a) = LabelPairs(b)
    /\ TupleTable[a].ts # TupleTable[b].ts

\* a CheckAndMark of a sample that has set its return value to false and is
\* about to publish the size of the set
MarkingAt(p, label) == pc[p] = label /\ ~isDuplicate[p]

\* C11: the timestamp is part of a sample's identity.  Once a CheckAndMark
\* has marked a sample, a CheckAndMark of the same name and labels under a
\* different timestamp (a sample not submitted before) returns false, and
\* its critical section raises the unique-metrics gauge by one.
C11_TimestampIsIdentity ==
    /\ [](\A i, j \in 1..Len(log) :
            (/\ i < j
             /\ IsCheckAndMark(log[i]) /\ log[i].ret = FALSE
             /\ IsCheckAndMark(log[j])
             /\ DiffersOnlyInTimestamp(log[i].t, log[j].t)
             /\ NoBoundaryBetween(i, j)
             /\ \A k \in 1..(j - 1) :
                    ~IsReset(log[k]) => ~SameSample(log[k].t, log[j].t))
            => log[j].ret = FALSE)
    /\ [][\A p \in Procs :
            (/\ MarkingAt(p, "cam_gauge")
             /\ pc'[p] = "cam_unlock"
             /\ \E t \in TupleIds :
                    /\ DiffersOnlyInTimestamp(t, args[p])
                    /\ SigOf[t] \in sentSignatures)
            => uniqueMetricsGauge' = uniqueMetricsGauge + 1]_vars

\* a sample marked at noon and the same labels one second later, both
\* returned false, the gauge at two
C11_Witness ==
    /\ Len(log) = 2
    /\ IsCheckAndMark(log[1]) /\ log[1].ret = FALSE
    /\ IsCheckAndMark(log[2]) /\ log[2].ret = FALSE
    /\ DiffersOnlyInTimestamp(log[1].t, log[2].t)
    /\ uniqueMetricsGauge = 2

----------------------------------------------------------------------------
(* C12 *)

\* the same keys and timestamp, another name or another value of a label
DiffersInNameOrValue(a, b) ==
    /\ TupleTable[a].keys = TupleTable[b].keys
    /\ TupleTable[a].ts = TupleTable[b].ts
    /\ \/ TupleTable[a].name # TupleTable[b].name
       \/ TupleTable[a].values # TupleTable[b].values

\* the samples of TestMetricDeduplicator_CheckAndMark
SuiteSample(t) == TupleTable[t].name \in {StrTestMetric, StrDifferentMetric}

\* log[i] marked a sample, log[j] is the first CheckAndMark of another
\* sample that differs from it in the name or in a label value
MarkedThenOther(i, j) ==
    /\ i < j
    /\ IsCheckAndMark(log[i]) /\ log[i].ret = FALSE
    /\ IsCheckAndMark(log[j])
    /\ DiffersInNameOrValue(log[i].t, log[j].t)
    /\ \A k \in 1..(j - 1) : log[k].t # log[j].t

\* C12 as claimed: any two inputs that differ in the metric name or in a
\* label value have different signatures, and after one of them is marked
\* CheckAndMark on the other returns false.
C12_AnyDistinctInputsDistinctSignatures ==
    \A i, j \in 1..Len(log) :
        MarkedThenOther(i, j) =>
            /\ log[i].sig # log[j].sig
            /\ log[j].ret = FALSE

\* C12: the inputs used in the suite that differ in the metric name or in
\* a label value have different signatures, and after one of them is
\* marked CheckAndMark on the other returns false.
C12_SuiteInputsDistinctSignatures ==
    \A i, j \in 1..Len(log) :
        (/\ MarkedThenOther(i, j)
         /\ SuiteSample(log[i].t) /\ SuiteSample(log[j].t))
        => /\ log[i].sig # log[j].sig
           /\ log[j].ret = FALSE

\* the sample of the suite marked, then the one with another value and the
\* one with another name, each returning false
C12_Witness ==
    /\ Len(log) = 3
    /\ \A k \in 1..3 : IsCheckAndMark(log[k]) /\ SuiteSample(log[k].t)
    /\ TupleTable[log[2].t].values # TupleTable[log[1].t].values
    /\ TupleTable[log[3].t].name # TupleTable[log[1].t].name
    /\ \A k \in 1..3 : log[k].ret = FALSE
    /\ uniqueMetricsGauge = 3

----------------------------------------------------------------------------
(* C13 *)

\* C13: for every accumulator state and every 64-bit value, AddUint64
\* gives what folding AddByte over the eight bytes of the value gives, least
\* significant byte first, each step being (state XOR byte) * prime with
\* 64-bit wraparound.
C13_AddUint64FoldsBytesLSBFirst ==
    /\ [](hashPc \in {"old", "done"} => result = h2)
    /\ [][hashPc = "fold" =>
             h2' = Mul64(Xor64(h2, U64(ByteOf(testValue, bytesDone), 0, 0, 0)), prime64)]_vars

\* AddUint64(New(), 0x0102030405060708) and AddByte folded over 08, 07, ...,
\* 01 have given the same state
C13_Witness ==
    /\ hashPc = "done"
    /\ testValue = ByteOrderValue
    /\ hashStart = New
    /\ bytesDone = 8
    /\ result = h2

----------------------------------------------------------------------------
(* C14 *)

\* C14: for every nonzero 64-bit value, AddUint64(New(), v) differs from
\* the single-step digest (New() XOR v) * prime computed with 64-bit
\* wraparound.
C14_DiffersFromXorOnce ==
    (hashPc = "done" /\ hashStart = New /\ testValue # Zero64) => result # oldResult

\* both digests of 0x0102030405060708 computed from New(), and different
C14_Witness ==
    /\ hashPc = "done"
    /\ hashStart = New
    /\ testValue = ByteOrderValue
    /\ oldResult # NoSig
    /\ result # oldResult

----------------------------------------------------------------------------
(* Reading an assembled label set *)

\* the keys of a well-formed payload
SystemKeys ==
    IF systemLabelsJSON.shape = "object"
    THEN {systemLabelsJSON.pairs[i][1] : i \in DOMAIN systemLabelsJSON.pairs}
    ELSE {}

\* the value the payload gives a key
SystemValue(k) ==
    LET i == CHOOSE n \in DOMAIN systemLabelsJSON.pairs : systemLabelsJSON.pairs[n][1] = k
    IN  systemLabelsJSON.pairs[i][2]

\* the keys of the sources that come before the user and system labels
EarlierKeys == {UnitKey} \cup DOMAIN metricLabels \cup DOMAIN resourceLabels

\* the positions at which a key stands in the label set
Occurrences(k) == {i \in DOMAIN lblKeys : lblKeys[i] = k}

\* the key stands in the label set exactly once, with this value
HoldsOnce(k, value) ==
    /\ Cardinality(Occurrences(k)) = 1
    /\ \A i \in Occurrences(k) : i \in DOMAIN lblValues /\ lblValues[i] = value

Assembled == lblPc = "done"

----------------------------------------------------------------------------
(* C15 *)

\* C15: with system labels enabled and the override flag off, a key that
\* occurs in both the user labels and the system labels, and in no earlier
\* source, stands in the assembled label set once with the system value;
\* the keys only the system labels carry are present too.
C15_SystemWinsWithoutOverride ==
    (Assembled /\ enableSystemLabels /\ ~userLabelsOverride) =>
        /\ \A k \in (SystemKeys \cap DOMAIN userLabels) \ EarlierKeys :
               HoldsOnce(k, SystemValue(k))
        /\ \A k \in SystemKeys \ (DOMAIN userLabels \cup EarlierKeys) :
               HoldsOnce(k, SystemValue(k))

\* user = {region}, system = {region, app}, neither key in an earlier source
C15_Witness ==
    /\ Assembled /\ enableSystemLabels /\ ~userLabelsOverride
    /\ "region" \in (SystemKeys \cap DOMAIN userLabels) \ EarlierKeys
    /\ "app" \in SystemKeys \ (DOMAIN userLabels \cup EarlierKeys)
    /\ HoldsOnce("region", "system_value")
    /\ HoldsOnce("app", "system_value")

----------------------------------------------------------------------------
(* C16 *)

\* C16: with system labels enabled and the override flag on, a key that
\* occurs in both the user labels and the system labels, and in no earlier
\* source, stands in the assembled label set once with the user value, and
\* every key only the system labels carry is present with its system value.
C16_UserWinsWithOverride ==
    (Assembled /\ enableSystemLabels /\ userLabelsOverride) =>
        /\ \A k \in (SystemKeys \cap DOMAIN userLabels) \ EarlierKeys :
               HoldsOnce(k, userLabels[k])
        /\ \A k \in SystemKeys \ (DOMAIN userLabels \cup EarlierKeys) :
               HoldsOnce(k, SystemValue(k))

\* the same inputs with the override flag on
C16_Witness ==
    /\ Assembled /\ enableSystemLabels /\ userLabelsOverride
    /\ "region" \in (SystemKeys \cap DOMAIN userLabels) \ EarlierKeys
    /\ "app" \in SystemKeys \ (DOMAIN userLabels \cup EarlierKeys)
    /\ HoldsOnce("region", "user_value")
    /\ HoldsOnce("app", "system_value")

----------------------------------------------------------------------------
(* C17 *)

\* the value the first of unit, metric, resource and user labels gives a key
ValueWithoutSystem(k) ==
    IF k = UnitKey THEN unitLabel
    ELSE IF k \in DOMAIN metricLabels THEN metricLabels[k]
    ELSE IF k \in DOMAIN resourceLabels THEN resourceLabels[k]
    ELSE userLabels[k]

\* 1 for the unit label, 2, 3, 4 for a key first supplied by the metric,
\* resource, user labels
RankWithoutSystem(k) ==
    IF k = UnitKey THEN 1
    ELSE IF k \in DOMAIN metricLabels THEN 2
    ELSE IF k \in DOMAIN resourceLabels THEN 3
    ELSE 4

\* the label set is what unit, metric, resource and user labels alone give:
\* their keys, once each, with the value of the first source, in the order
\* of the sources
AssemblyWithoutSystem ==
    /\ Len(lblKeys) = Len(lblValues)
    /\ {lblKeys[i] : i \in DOMAIN lblKeys} = EarlierKeys \cup DOMAIN userLabels
    /\ \A i, j \in DOMAIN lblKeys : lblKeys[i] = lblKeys[j] => i = j
    /\ \A i \in DOMAIN lblKeys : lblValues[i] = ValueWithoutSystem(lblKeys[i])
    /\ \A i, j \in DOMAIN lblKeys :
           i < j => RankWithoutSystem(lblKeys[i]) <= RankWithoutSystem(lblKeys[j])

\* C17 as claimed: with the enable-system-labels switch off no key and no
\* value of the system-label payload appears in the assembled label set,
\* whatever the override flag, and the result is the assembly of unit,
\* metric, resource and user labels alone.
C17_NoPayloadKeyAppears ==
    (Assembled /\ ~enableSystemLabels) =>
        /\ \A i \in DOMAIN lblKeys : lblKeys[i] \notin SystemKeys
        /\ \A i \in DOMAIN lblValues, k \in SystemKeys : lblValues[i] # SystemValue(k)
        /\ AssemblyWithoutSystem

\* C17: with the enable-system-labels switch off the payload contributes
\* nothing, whatever the override flag: the assembled label set is the
\* assembly of unit, metric, resource and user labels alone, so a key of
\* the payload appears only if one of those sources carries it, with that
\* source's value.
C17_SystemLabelsDisabled ==
    (Assembled /\ ~enableSystemLabels) =>
        /\ AssemblyWithoutSystem
        /\ \A k \in SystemKeys \ (EarlierKeys \cup DOMAIN userLabels) : Occurrences(k) = {}
        /\ \A k \in SystemKeys \cap (EarlierKeys \cup DOMAIN userLabels) :
               HoldsOnce(k, ValueWithoutSystem(k))

\* switch off, override flag on, the payload carries a key of the user
\* labels and a key of its own
C17_Witness ==
    /\ Assembled /\ ~enableSystemLabels /\ userLabelsOverride
    /\ "region" \in (SystemKeys \cap DOMAIN userLabels) \ EarlierKeys
    /\ "app" \in SystemKeys \ (DOMAIN userLabels \cup EarlierKeys)
    /\ HoldsOnce("region", "user_value")
    /\ Occurrences("app") = {}

----------------------------------------------------------------------------
(* C18 *)

\* the sources in the order the assembly visits them
SourceOrder ==
    IF userLabelsOverride
    THEN <<"unit", "metric", "resource", "user", "system">>
    ELSE <<"unit", "metric", "resource", "system", "user">>

\* the keys a source supplies; the payload supplies none when the switch
\* is off
KeysOfSource(src) ==
    IF src = "unit" THEN {UnitKey}
    ELSE IF src = "metric" THEN DOMAIN metricLabels
    ELSE IF src = "resource" THEN DOMAIN resourceLabels
    ELSE IF src = "user" THEN DOMAIN userLabels
    ELSE IF enableSystemLabels THEN SystemKeys ELSE {}

ValueOfSource(src, k) ==
    IF src = "unit" THEN unitLabel
    ELSE IF src = "metric" THEN metricLabels[k]
    ELSE IF src = "resource" THEN resourceLabels[k]
    ELSE IF src = "user" THEN userLabels[k]
    ELSE SystemValue(k)

\* the earliest source that supplies the key
FirstSource(k) ==
    LET n == CHOOSE i \in 1..5 :
                 /\ k \in KeysOfSource(SourceOrder[i])
                 /\ \A j \in 1..(i - 1) : k \notin KeysOfSource(SourceOrder[j])
    IN  SourceOrder[n]

\* the number of sources that supply the key
SourcesOf(k) == {i \in 1..5 : k \in KeysOfSource(SourceOrder[i])}

\* s is the beginning of t
IsPrefix(s, t) == Len(s) <= Len(t) /\ \A i \in DOMAIN s : s[i] = t[i]

\* C18: label assembly is first-source-wins.  The unit label is always the
\* first entry; a key that occurs in several sources has the value of the
\* earliest one in the order unit, metric, resource, then user and system;
\* and no step of the assembly changes the value or the position of a key
\* already present.
C18_FirstSourceWins ==
    /\ [](lblPc \in {"metric", "resource", "user", "system", "done"} =>
              /\ lblKeys[1] = UnitKey
              /\ lblValues[1] = unitLabel)
    /\ [](Assembled =>
              \A i \in DOMAIN lblKeys :
                  lblValues[i] = ValueOfSource(FirstSource(lblKeys[i]), lblKeys[i]))
    /\ [][(lblPc \in {"metric", "resource", "user", "system"}) =>
              (IsPrefix(lblKeys, lblKeys') /\ IsPrefix(lblValues, lblValues'))]_vars

\* region supplied by the metric, the resource, the user and the system
\* labels; unit supplied by the metric labels as well: both keep the value
\* of the first source
C18_Witness ==
    /\ Assembled /\ enableSystemLabels
    /\ Cardinality(SourcesOf("region")) = 4
    /\ Cardinality(SourcesOf(UnitKey)) >= 2
    /\ HoldsOnce("region", "metric_value")
    /\ HoldsOnce(UnitKey, "bytes")

----------------------------------------------------------------------------
(* C19 *)

\* C19: whatever the five sources contain and however the two flags are
\* set, the assembled label set never contains the same key twice.
C19_KeysUnique ==
    lblPc \in {"metric", "resource", "user", "system", "done", "overridden"} =>
        \A i, j \in DOMAIN lblKeys : lblKeys[i] = lblKeys[j] => i = j

\* every source, the unit label included, supplies a key another source
\* supplies, and the label set holds each key once
C19_Witness ==
    /\ Assembled /\ enableSystemLabels
    /\ Cardinality(SourcesOf("region")) = 4
    /\ Cardinality(SourcesOf("app")) >= 2
    /\ Cardinality(SourcesOf(UnitKey)) >= 2
    /\ Len(lblKeys) = 3
    /\ \A k \in LabelKeyNames : Cardinality(Occurrences(k)) = 1

----------------------------------------------------------------------------
(* C20 *)

\* C20: the keys sequence and the values sequence have equal length after
\* every step of the assembly (each skip-existing append, the
\* addSystemLabels call, the addOrOverrideLabels call) when they had equal
\* length before it.
C20_ParallelLengths ==
    [][Len(lblKeys) = Len(lblValues) => Len(lblKeys') = Len(lblValues')]_vars

\* a label set that grew by skip-existing appends, by addSystemLabels and
\* by addOrOverrideLabels, keys and values of equal length
C20_Witness ==
    /\ lblPc = "overridden"
    /\ enableSystemLabels
    /\ \E k \in SystemKeys : HoldsOnce(k, "system_value")
    /\ \E k \in DOMAIN userLabels : HoldsOnce(k, "user_value")
    /\ HoldsOnce("new_key", "new_value")
    /\ Len(lblKeys) = Len(lblValues)

----------------------------------------------------------------------------
(* C21 *)

Malformed == systemLabelsJSON.shape # "object"

\* C21: addSystemLabels called with a payload that is no object (empty
\* input, null, an array, unparsable text) leaves the keys and the values
\* as they were, and the assembly goes on to its next phase as after any
\* other call: no failure reaches the caller.
C21_MalformedPayloadIsNoOp ==
    [][(lblPc = "system" /\ enableSystemLabels /\ Malformed)
       => /\ lblKeys' = lblKeys
          /\ lblValues' = lblValues
          /\ lblPc' = NextPhase("system")]_vars

\* an assembly whose addSystemLabels call got an array or unparsable text
\* holding the key "region", which no other source supplies: the call is
\* over and the label set has no "region"
C21_Witness ==
    /\ Assembled /\ enableSystemLabels
    /\ systemLabelsJSON.shape \in {"array", "invalid"}
    /\ SourcesOf("region") = {}
    /\ Occurrences("region") = {}
    /\ Len(lblKeys) = 2

----------------------------------------------------------------------------
(* C22 *)

\* positions of the entries of keys equal to key
MatchesOf(keys, key) == {i \in DOMAIN keys : keys[i] = key}

FirstMatch(keys, key) ==
    CHOOSE i \in MatchesOf(keys, key) : \A j \in MatchesOf(keys, key) : i <= j

\* C22: addOrOverrideLabels(keys, values, key, value, override) appends
\* (key, value) at the end when the key is absent, whatever the override
\* flag; changes nothing when the key is present and override is false; and
\* when the key is present and override is true replaces only the value at
\* the first occurrence of the key: the keys, their number and every other
\* value stay as they were.
C22_AddOrOverride ==
    lblPc = "t_done" =>
        LET at == MatchesOf(tt.initialKeys, tt.addKey)
        IN  /\ at = {} =>
                  /\ lblKeys = Append(tt.initialKeys, tt.addKey)
                  /\ lblValues = Append(tt.initialValues, tt.addValue)
            /\ (at # {} /\ ~tt.override) =>
                  /\ lblKeys = tt.initialKeys
                  /\ lblValues = tt.initialValues
            /\ (at # {} /\ tt.override) =>
                  /\ lblKeys = tt.initialKeys
                  /\ Len(lblValues) = Len(tt.initialValues)
                  /\ \A i \in DOMAIN lblValues :
                        lblValues[i] = IF i = FirstMatch(tt.initialKeys, tt.addKey)
                                       THEN tt.addValue
                                       ELSE tt.initialValues[i]

\* an overriding call for a key that stands twice in the label set: the
\* first entry took the new value, the second kept its own
C22_Witness ==
    /\ lblPc = "t_done"
    /\ tt.override
    /\ tt.initialKeys = <<"Key", "key", "key">>
    /\ tt.addKey = "key"
    /\ lblValues = <<"value1", "new_value", "value3">>

----------------------------------------------------------------------------
(* C23 *)

\* C23: findKeyIndex(keys, key) returns the smallest index whose entry
\* equals key exactly (case matters, the empty string is a key like any
\* other) and -1 when no entry does, the empty sequence included;
\* keyExists(keys, key) is true exactly when there is such an entry.
C23_FindKeyIndex ==
    /\ lblPc \in {"t_index", "t_exists", "t_done"} =>
          LET at == MatchesOf(tt.initialKeys, tt.searchKey)
          IN  foundIndex = IF at = {} THEN -1
                           ELSE FirstMatch(tt.initialKeys, tt.searchKey) - 1
    /\ lblPc \in {"t_exists", "t_done"} =>
          (foundExists <=> MatchesOf(tt.initialKeys, tt.searchKey) # {})

\* the key "key" looked up in a label set that holds "Key" before it and
\* "key" twice: index 1, the first exact match
C23_Witness ==
    /\ lblPc = "t_exists"
    /\ tt.initialKeys = <<"Key", "key", "key">>
    /\ tt.searchKey = "key"
    /\ foundIndex = 1
    /\ foundExists

----------------------------------------------------------------------------
(* C24 *)

\* no key is supplied by two sources
SourcesDisjoint ==
    \A i, j \in 1..5 :
        i # j => KeysOfSource(SourceOrder[i]) \cap KeysOfSource(SourceOrder[j]) = {}

\* the (key, value) pairs of all sources
SourcePairs ==
    UNION { {<<k, ValueOfSource(SourceOrder[i], k)>> : k \in KeysOfSource(SourceOrder[i])}
            : i \in 1..5 }

\* the (key, value) pairs of the label set
AssembledPairs == {<<lblKeys[i], lblValues[i]>> : i \in DOMAIN lblKeys}

\* C24: when no key is supplied by two sources and system labels are
\* enabled, the assembled label set consists of exactly the unit label and
\* every (key, value) pair of the metric, resource, user and system labels,
\* each once, for either value of the override flag.
C24_DisjointSourcesAllKept ==
    (Assembled /\ enableSystemLabels /\ SourcesDisjoint) =>
        /\ Len(lblKeys) = Len(lblValues)
        /\ AssembledPairs = SourcePairs
        /\ Len(lblKeys) = Cardinality(SourcePairs)

\* the all_label_sources case with the override flag set: two labels of
\* each of the four sources and the unit label, nine labels assembled
C24_Witness ==
    /\ Assembled /\ enableSystemLabels /\ userLabelsOverride
    /\ SourcesDisjoint
    /\ DOMAIN metricLabels = MetricKeyNames
    /\ DOMAIN resourceLabels = ResourceKeyNames
    /\ DOMAIN userLabels = {"environment", "team"}
    /\ SystemKeys = SystemKeyNames
    /\ Len(lblKeys) = 9
    /\ HoldsOnce("namespace", "system_value")
    /\ HoldsOnce("team", "user_value")

----------------------------------------------------------------------------
(* C25 *)

\* what the deduplicator d observes: its signature set, counters and gauge
Observed(h, m) == [f \in Fields |-> h[m[f]]]

\* C25: each deduplicator constructed by NewMetricDeduplicator owns its
\* signature set, counters and gauge: no object belongs to two
\* deduplicators, and a construction or a call of CheckAndMark, RevertMark
\* or Reset on one deduplicator leaves the set, the counters and the gauge
\* of every other deduplicator as they were.
C25_InstancesIsolated ==
    /\ [](\A d, e \in DOMAIN instances :
            d # e => \A f, g \in Fields : instances[d][f] # instances[e][g])
    /\ [][\A e \in DOMAIN instances :
            e # lastCall'.d =>
                Observed(heap', instances'[e]) = Observed(heap, instances[e])]_vars

\* the first deduplicator has counted a duplicate and the second was reset
\* after the first had marked: the first still holds its signature and its
\* counters, the second holds none
C25_Witness ==
    /\ Len(instances) = 2
    /\ lastCall = [d |-> 2, op |-> "Reset", t |-> NoTuple]
    /\ heap[instances[1].sentSignatures] # {}
    /\ heap[instances[1].duplicatesTotal] = 1
    /\ heap[instances[1].checksTotal] = 2
    /\ heap[instances[1].uniqueMetricsGauge] = 1
    /\ heap[instances[2].sentSignatures] = {}
    /\ heap[instances[2].checksTotal] = 1

----------------------------------------------------------------------------
(* C26 *)

\* the indices are in ascending order of their keys
KeySorted ==
    \A i, j \in DOMAIN sortIndices :
        i < j => ~StrLess(sortKeys[sortIndices[j]], sortKeys[sortIndices[i]])

\* indices with equal keys are in their original order
TiesInOriginalOrder ==
    \A i, j \in DOMAIN sortIndices :
        (i < j /\ sortKeys[sortIndices[i]] = sortKeys[sortIndices[j]])
            => sortIndices[i] < sortIndices[j]

\* C26: the signature computation orders the label indices by ascending
\* byte-wise comparison of their keys with a stable sort: indices whose
\* keys are equal are folded in their original relative order.
C26_StableSortByKey ==
    sortPc = "sorted" => (KeySorted /\ TiesInOriginalOrder)

----------------------------------------------------------------------------
(* C27 *)

StrBX == <<98, 120>>

StrMA == <<109, 97>>

\* the inputs of the signature computation, with a name and a value that
\* begin where a key ends: "ma", and "bx" after the key "a"
BoundaryInputs ==
    UNION { [name : SigNames \cup {StrMA}, keys : [1..n -> SigKeys],
             values : [1..n -> SigValues \cup {StrBX}]] : n \in 0..MaxLabels }

\* the (key, value) pairs in the order in which they are folded
SortedLabelList(labelKeys, labelValues) ==
    LET indices == sortSlice([i \in 1..Len(labelKeys) |-> i], labelKeys)
    IN  [n \in DOMAIN indices |-> <<labelKeys[indices[n]], labelValues[indices[n]]>>]

\* the name, the sorted label list and the folded bytes of each of these
\* inputs
BoundaryRows ==
    { [name |-> b.name, labels |-> SortedLabelList(b.keys, b.values),
       bytes |-> foldedBytes(b.name, b.keys, b.values)] : b \in BoundaryInputs }

\* C27: the bytes folded into the signature have unambiguous field
\* boundaries.  They are the name, one separator byte, and for every label
\* in key order the key, one separator byte, the value, one separator byte;
\* the signature is the fold of these bytes and of the timestamp.  For
\* names, keys and values without the separator byte, an input that differs
\* in the name or in the sorted label list gives different bytes.
C27_UnambiguousBoundaries ==
    sigPc = "hashed" =>
        /\ sigOut = AddUint64(Add(New, sigBytes), sigArgs.ts)
        /\ LET own == SortedLabelList(sigArgs.keys, sigArgs.values)
           IN  \A b \in BoundaryRows :
                  (b.name # sigArgs.name \/ b.labels # own) => b.bytes # sigBytes

\* key "ab" with value "x" folded: its bytes are a, b, separator, x,
\* separator after the name, while key "a" with value "bx" gives
\* a, separator, b, x, separator
C27_Witness ==
    /\ sigPc = "hashed"
    /\ sigArgs.name = StrM
    /\ sigArgs.keys = <<StrAB>>
    /\ sigArgs.values = <<StrX>>
    /\ sigBytes = <<109, 255, 97, 98, 255, 120, 255>>
    /\ foldedBytes(StrM, <<StrA>>, <<StrBX>>) = <<109, 255, 97, 255, 98, 120, 255>>

----------------------------------------------------------------------------
(* C28 *)

\* C28: when there are fewer values than keys the signature computation
\* does not fail: for a key index without a value it folds the key, a
\* separator, nothing, and a separator, and the signature is that of the
\* same labels with the empty string as the value at every such index.
C28_MissingValueIsEmptyValue ==
    sigPc = "short" => (sigOutShort # NoSig /\ sigOutShort = sigOutPadded)

\* two labels supplied out of key order with the value of the second
\* missing: the signature is that of the empty value, and not that of the
\* full input
C28_Witness ==
    /\ sigPc = "short"
    /\ sigArgs.keys = <<StrB, StrA>>
    /\ sigCut = 1
    /\ sigOutShort = sigOutPadded
    /\ sigOutShort # sigOut
    /\ sigOutShort = hashLabelsTimestamp(sigArgs.name, <<StrB, StrA>>,
                                         <<sigArgs.values[1], <<>> >>, sigArgs.ts)

----------------------------------------------------------------------------
(* C29 *)

\* C29: an absent (nil) label set and an empty label set give the same
\* signature: once CheckAndMark(name, empty, empty, ts) has marked,
\* CheckAndMark(name, nil, nil, ts) returns true.
C29_NilLabelsAreEmptyLabels ==
    /\ SigOf[NilId] = SigOf[EmptyId]
    /\ \A i, j \in 1..Len(log) :
          (/\ i < j
           /\ IsCheckAndMark(log[i]) /\ log[i].t = EmptyId /\ log[i].ret = FALSE
           /\ IsCheckAndMark(log[j]) /\ log[j].t = NilId)
              => log[j].ret = TRUE

\* the calls of the suite: empty labels marked, empty labels again a
\* duplicate, nil labels a duplicate
C29_Witness ==
    /\ Len(log) = 3
    /\ log[1].t = EmptyId /\ log[1].ret = FALSE
    /\ log[2].t = EmptyId /\ log[2].ret = TRUE
    /\ log[3].t = NilId /\ log[3].ret = TRUE
    /\ TupleTable[NilId].keys # TupleTable[EmptyId].keys

----------------------------------------------------------------------------
(* C30 *)

Idle == sentSignatures = {}

Populated == sentSignatures # {}

\* goroutine p takes the step it stands before at label
Steps(p, label) == pc[p] = label /\ pc'[p] # label

\* a goroutine inside a call can take a step, and a goroutine outside can
\* begin each of the three calls as long as calls are left
NoTerminalState ==
    /\ (\E p \in Procs : pc[p] # "idle")
          => ENABLED (\E p \in Procs : CheckAndMark(p) \/ RevertMark(p) \/ Reset(p))
    /\ \A p \in Procs :
          (pc[p] = "idle" /\ issued < MaxCalls)
              => /\ \A t \in TupleIds : ENABLED CallCheckAndMark(p, t)
                 /\ \A t \in TupleIds : ENABLED CallRevertMark(p, t)
                 /\ ENABLED CallReset(p)

\* C30 as claimed: the deduplicator is Idle (empty signature set) after
\* construction, becomes Populated when a CheckAndMark marks, and goes back
\* to Idle on Reset and in no other way; no reachable state is terminal.
C30_IdleAgainOnlyOnReset ==
    /\ Idle
    /\ [][/\ (Idle /\ Populated') => \E p \in Procs : Steps(p, "cam_insert")
          /\ (Populated /\ Idle') => \E p \in Procs : Steps(p, "rs_clear")]_vars
    /\ []NoTerminalState

\* C30: the deduplicator is Idle (empty signature set) after construction
\* and after every Reset, and Populated when one or more signatures are
\* marked.  It becomes Populated only when a CheckAndMark marks, which
\* always leaves it Populated, and becomes Idle again only on Reset or when
\* a RevertMark deletes the last signature.  No reachable state is
\* terminal: a call in progress can take a step, and CheckAndMark,
\* RevertMark and Reset can be called in either lifecycle state.
C30_Lifecycle ==
    /\ Idle
    /\ [][/\ (Idle /\ Populated') => \E p \in Procs : Steps(p, "cam_insert")
          /\ (Populated /\ Idle') =>
                \E p \in Procs : Steps(p, "rs_clear") \/ Steps(p, "rm_delete")
          /\ (\E p \in Procs : Steps(p, "cam_insert")) => Populated'
          /\ (\E p \in Procs : Steps(p, "rs_clear")) => Idle']_vars
    /\ []NoTerminalState

\* a CheckAndMark has marked, a Reset has emptied the set, a CheckAndMark
\* has marked again and a RevertMark has deleted that signature: the
\* deduplicator is Idle for the third time, and a goroutine is idle
C30_Witness ==
    /\ Len(log) = 4
    /\ IsCheckAndMark(log[1]) /\ log[1].ret = FALSE
    /\ IsReset(log[2])
    /\ IsCheckAndMark(log[3]) /\ log[3].ret = FALSE
    /\ IsRevertMark(log[4]) /\ log[4].sig = log[3].sig
    /\ Idle
    /\ \A p \in Procs : pc[p] = "idle"

----------------------------------------------------------------------------
(* C31 *)

\* the pairs of the payload whose key the label set does not hold, in the
\* order of the payload
AbsentPairs ==
    SelectSeq(systemLabelsJSON.pairs,
              LAMBDA pr : \A i \in DOMAIN lblKeys : lblKeys[i] # pr[1])

\* C31: addSystemLabels with a well-formed object payload appends every
\* payload key that is not present yet, in the order of the payload, after
\* the existing entries; it skips the keys already present and leaves the
\* position and the value of every existing entry unchanged.
C31_SystemLabelsAppendedInPayloadOrder ==
    [][(lblPc = "system" /\ enableSystemLabels /\ ~Malformed)
       => /\ lblKeys' = lblKeys \o [i \in DOMAIN AbsentPairs |-> AbsentPairs[i][1]]
          /\ lblValues' = lblValues \o [i \in DOMAIN AbsentPairs |-> AbsentPairs[i][2]]]_vars

\* the payload {"app": ..., "region": ...} added to a label set in which
\* the metric labels supply nothing and nobody else supplies the two keys:
\* both appended after the unit label, app before region
C31_Witness ==
    /\ Assembled /\ enableSystemLabels
    /\ systemLabelsJSON.shape = "object"
    /\ [i \in DOMAIN systemLabelsJSON.pairs |-> systemLabelsJSON.pairs[i][1]]
           = <<"app", "region">>
    /\ lblKeys = <<UnitKey, "app", "region">>
    /\ lblValues = <<unitLabel, "system_value", "system_value">>

----------------------------------------------------------------------------
(* C32 *)

\* the entries of the label set that the source added
AddedBy(src) == {i \in DOMAIN lblKeys : FirstSource(lblKeys[i]) = src}

\* every entry of the first set stands before every entry of the second
AllBefore(first, second) == \A i \in first, j \in second : i < j

\* C32: in the assembled sequence, with system labels enabled, the entries
\* added by the system labels come before the entries added by the user
\* labels when the override flag is off, and after them when it is on; in
\* both cases they follow the unit, metric and resource entries.
C32_SystemAndUserOrder ==
    (Assembled /\ enableSystemLabels) =>
        /\ ~userLabelsOverride => AllBefore(AddedBy("system"), AddedBy("user"))
        /\ userLabelsOverride => AllBefore(AddedBy("user"), AddedBy("system"))
        /\ AllBefore(AddedBy("unit") \cup AddedBy("metric") \cup AddedBy("resource"),
                     AddedBy("user") \cup AddedBy("system"))
        /\ AddedBy("unit") \cup AddedBy("metric") \cup AddedBy("resource")
               \cup AddedBy("user") \cup AddedBy("system") = DOMAIN lblKeys

\* the override flag off, a metric and a resource label, two system labels
\* and two user labels of which the system labels supply one first: the
\* system entries stand at 4 and 5, the one user entry at 6
C32_Witness ==
    /\ Assembled /\ enableSystemLabels /\ ~userLabelsOverride
    /\ Cardinality(DOMAIN metricLabels) = 1
    /\ Cardinality(DOMAIN resourceLabels) = 1
    /\ DOMAIN userLabels = {"team", "cluster"}
    /\ SystemKeys = SystemKeyNames
    /\ AddedBy("system") = {4, 5}
    /\ AddedBy("user") = {6}
    /\ lblKeys[6] = "team"

----------------------------------------------------------------------------
(* C33 *)

\* C33: Reset is not serialized against the calls in flight.  A
\* CheckAndMark that was called before a Reset emptied the set and took the
\* lock after it has its critical section after the Reset; when it marks,
\* its signature is in the set of the new iteration, and every identical
\* CheckAndMark that follows it without a Reset or RevertMark in between,
\* the first of the new iteration included, returns true.  The gauge equals
\* the size of the set whenever the lock is free.
C33_ResetNotSerialized ==
    /\ mu = 0 => uniqueMetricsGauge = Cardinality(sentSignatures)
    /\ \A j \in lateLog :
          /\ IsCheckAndMark(log[j])
          /\ \E i \in 1..(j - 1) : IsReset(log[i])
          /\ \A k \in (j + 1)..Len(log) :
                (/\ log[j].ret = FALSE
                 /\ IsCheckAndMark(log[k])
                 /\ SameSample(log[j].t, log[k].t)
                 /\ NoBoundaryBetween(j, k))
                    => log[k].ret = TRUE

\* a Reset returned first, the CheckAndMark that had waited through it
\* marked, and the first identical CheckAndMark after it was a duplicate;
\* the set holds the one signature of the late call and the gauge is 1
C33_Witness ==
    /\ Len(log) = 3
    /\ IsReset(log[1])
    /\ lateLog = {2}
    /\ IsCheckAndMark(log[2]) /\ log[2].ret = FALSE
    /\ IsCheckAndMark(log[3]) /\ log[3].t = log[2].t /\ log[3].ret = TRUE
    /\ sentSignatures = {log[2].sig}
    /\ uniqueMetricsGauge = 1
    /\ mu = 0

----------------------------------------------------------------------------
(* C34 *)

\* the delete of RevertMark removes nothing but the signature computed from
\* the arguments of the call
RevertMarkKeepsOtherSignatures ==
    \A p \in Procs :
        (pc[p] = "rm_delete" /\ pc'[p] # "rm_delete")
            => /\ signature[p] = SigOf[args[p]]
               /\ sentSignatures \ {signature[p]} \subseteq sentSignatures'

\* a marked sample is still a duplicate after RevertMark calls whose
\* arguments have another signature
MissedRevertKeepsDuplicate ==
    \A j \in 1..Len(log) : \A k \in (j + 1)..Len(log) :
        (/\ IsCheckAndMark(log[j]) /\ log[j].ret = FALSE
         /\ IsCheckAndMark(log[k]) /\ SameSample(log[j].t, log[k].t)
         /\ \A i \in (j + 1)..(k - 1) :
                \/ IsCheckAndMark(log[i])
                \/ IsRevertMark(log[i]) /\ log[i].sig # log[j].sig)
            => log[k].ret = TRUE

\* C34: RevertMark finds a mark only through the signature recomputed from
\* its own arguments.  When the sample passed to RevertMark has another
\* signature than the sample that was marked, the signature of the marked
\* sample stays in the set, and a later CheckAndMark of the marked sample
\* still returns true.
C34_RevertMarkBySignatureOnly ==
    /\ [][RevertMarkKeepsOtherSignatures]_vars
    /\ []MissedRevertKeepsDuplicate

\* a sample was marked, RevertMark was called with a sample of another
\* signature, and the marked sample is still in the set and was reported
\* as a duplicate afterwards
C34_Witness ==
    /\ Len(log) = 3
    /\ IsCheckAndMark(log[1]) /\ log[1].ret = FALSE
    /\ IsRevertMark(log[2]) /\ log[2].sig # log[1].sig
    /\ IsCheckAndMark(log[3]) /\ log[3].t = log[1].t /\ log[3].ret = TRUE
    /\ log[1].sig \in sentSignatures

----------------------------------------------------------------------------
(* C35 *)

\* the set and the gauge before the call that wrote log position j: those
\* the call before it left, those of the constructor for the first call
Before(j) ==
    IF j = 1 THEN [set |-> {}, gauge |-> 0] ELSE snapshots[j - 1]

\* C35: mark and revert are inverse for the same sample.  When
\* CheckAndMark(t) returned false and the next call on the deduplicator is
\* RevertMark with the same name, labels and timestamp, the set and the
\* gauge are back to what they were before the mark, and a CheckAndMark(t)
\* that comes next returns false.
C35_MarkRevertInverse ==
    \A j \in 1..(Len(log) - 1) :
        (/\ IsCheckAndMark(log[j]) /\ log[j].ret = FALSE
         /\ IsRevertMark(log[j + 1]) /\ SameSample(log[j].t, log[j + 1].t))
            => /\ snapshots[j + 1] = Before(j)
               /\ (j + 1 = Len(log) /\ mu = 0)
                      => /\ sentSignatures = Before(j).set
                         /\ uniqueMetricsGauge = Before(j).gauge
               /\ (/\ j + 2 <= Len(log)
                   /\ IsCheckAndMark(log[j + 2])
                   /\ SameSample(log[j].t, log[j + 2].t))
                      => log[j + 2].ret = FALSE

\* with another sample marked first, a sample was marked, reverted and
\* marked again: the revert restored the set with the one other signature
\* and the gauge 1, and the last CheckAndMark returned false
C35_Witness ==
    /\ Len(log) = 4
    /\ IsCheckAndMark(log[1]) /\ log[1].ret = FALSE
    /\ IsCheckAndMark(log[2]) /\ log[2].ret = FALSE /\ log[2].sig # log[1].sig
    /\ IsRevertMark(log[3]) /\ log[3].t = log[2].t
    /\ IsCheckAndMark(log[4]) /\ log[4].t = log[2].t /\ log[4].ret = FALSE
    /\ snapshots[3] = [set |-> {log[1].sig}, gauge |-> 1]
    /\ snapshots[2] = [set |-> {log[1].sig, log[2].sig}, gauge |-> 2]

----------------------------------------------------------------------------
(* C36 *)

\* a call that returns gives the lock back, whatever its path
LockReleasedOnReturn ==
    \A p \in Procs :
        (pc[p] # "idle" /\ pc'[p] = "idle") => (mu = p /\ mu' = 0)

\* a state with a call in progress has a step of a call in progress
CallsNeverStuck ==
    (\E p \in Procs : pc[p] # "idle")
        => ENABLED (\E p \in Procs : Acquire(p) \/ Proceed(p))

\* C36: every CheckAndMark, RevertMark and Reset releases the lock on every
\* path, the early return of a duplicate included, and waits for nothing
\* but the lock: under fair scheduling every call of every goroutine
\* returns, and no state with a call in progress is a deadlock.
C36_EveryCallReturns ==
    /\ [][LockReleasedOnReturn]_vars
    /\ []CallsNeverStuck
    /\ \A p \in Procs : (pc[p] # "idle") ~> (pc[p] = "idle")

\* a duplicate is on its early return path with the lock held while every
\* other goroutine waits for the lock
C36_Witness ==
    \E p \in Procs :
        /\ pc[p] = "cam_dup"
        /\ mu = p
        /\ \A q \in Procs \ {p} : pc[q] \in {"cam_lock", "rm_lock", "rs_lock"}

----------------------------------------------------------------------------
(* C37 *)

\* C37: whenever no call is inside the critical section, the duplicates
\* counter is at most the checks counter, and the set holds at most
\* checks - duplicates signatures (the number of inserts made so far),
\* under every interleaving of CheckAndMark, RevertMark and Reset.
C37_CountersBoundTheSet ==
    mu = 0 => /\ duplicatesTotal <= checksTotal
              /\ Cardinality(sentSignatures) <= checksTotal - duplicatesTotal

\* three checks, one of them a duplicate, and a RevertMark after them: the
\* set holds one signature, fewer than the two inserts made
C37_Witness ==
    /\ mu = 0
    /\ AllIdle
    /\ checksTotal = 3
    /\ duplicatesTotal = 1
    /\ Cardinality(sentSignatures) = 1
    /\ Len(log) = 4
    /\ IsRevertMark(log[4])

----------------------------------------------------------------------------
(* C38 *)

\* the labels of a goroutine inside RevertMark
RevertMarkLabels == {"rm_lock", "rm_delete", "rm_gauge", "rm_unlock"}

\* C38: no step of RevertMark, from the call to the return, changes the
\* checks counter or the duplicates counter, whether the signature was in
\* the set or not; and no step of any call makes a counter smaller.
C38_RevertMarkLeavesCounters ==
    [][/\ (\E p \in Procs : /\ pc'[p] # pc[p]
                            /\ pc[p] \in RevertMarkLabels \/ pc'[p] \in RevertMarkLabels)
            => (checksTotal' = checksTotal /\ duplicatesTotal' = duplicatesTotal)
       /\ checksTotal' >= checksTotal
       /\ duplicatesTotal' >= duplicatesTotal]_vars

\* after a mark and a duplicate, a RevertMark that found the signature and
\* a RevertMark that did not have returned; the counters stand at two
\* checks and one duplicate
C38_Witness ==
    /\ Len(log) = 4
    /\ IsCheckAndMark(log[1]) /\ log[1].ret = FALSE
    /\ IsCheckAndMark(log[2]) /\ log[2].ret = TRUE
    /\ IsRevertMark(log[3]) /\ log[3].sig \in snapshots[2].set
    /\ IsRevertMark(log[4]) /\ log[4].sig \notin snapshots[3].set
    /\ checksTotal = 2
    /\ duplicatesTotal = 1

----------------------------------------------------------------------------
(* C39 *)

\* C39: whenever CheckAndMark returns true for a signature, an earlier
\* CheckAndMark after the last Reset returned false for that signature, no
\* RevertMark of that signature and no Reset came between the two, the
\* signature is in the set when the call returns, and the call leaves the
\* set and the gauge as it found them.
C39_TrueOnlyForLiveMark ==
    \A k \in 1..Len(log) :
        (IsCheckAndMark(log[k]) /\ log[k].ret = TRUE)
            => /\ \E j \in (LastResetBefore(k) + 1)..(k - 1) :
                     /\ IsCheckAndMark(log[j])
                     /\ log[j].ret = FALSE
                     /\ log[j].sig = log[k].sig
                     /\ \A i \in (j + 1)..(k - 1) :
                            ~(IsRevertMark(log[i]) /\ log[i].sig = log[k].sig)
               /\ log[k].sig \in snapshots[k].set
               /\ snapshots[k] = Before(k)

\* two samples were marked and the first was submitted again: the call
\* returned true and left the set of two signatures and the gauge 2
C39_Witness ==
    /\ Len(log) = 3
    /\ IsCheckAndMark(log[1]) /\ log[1].ret = FALSE
    /\ IsCheckAndMark(log[2]) /\ log[2].ret = FALSE
    /\ IsCheckAndMark(log[3]) /\ log[3].ret = TRUE /\ log[3].sig = log[1].sig
    /\ snapshots[3] = [set |-> {log[1].sig, log[2].sig}, gauge |-> 2]
    /\ snapshots[2] = snapshots[3]

====
